---- MODULE Spec2Model ----
(***************************************************************************)
(* A model of chirp (github.com/hiway/chirp): the bounded per-trigger      *)
(* playback queue (pkg/queue), the audio player's minimum-gap gate         *)
(* (pkg/player), the echo tracker of the root package (chirp.go), the      *)
(* Chirp engine's input/output handlers (pkg/chirp) and the PTY session    *)
(* manager (pkg/terminal).                                                 *)
(*                                                                         *)
(* Time is counted in milliseconds.  Bytes are one-character strings and a *)
(* pattern (an element of config.Queue.Match) is a sequence of bytes.      *)
(***************************************************************************)
EXTENDS Integers, Sequences, FiniteSets, TLC

\* ------------------------------------------------------------------ bounds

\* Largest max_length a modelled queue is configured with.
MaxCap == 2

\* Number of Queue.Add calls explored per queue (more than MaxCap).
MaxOffers == 4

\* Number of Queue.Stop calls explored per queue.
MaxStops == 2

\* Number of Queue.Add calls explored (all queues together) where time is
\* modelled.
MaxPlays == 3

\* The clock advances in steps of Quantum ms, up to MaxTime ms.
Quantum == 5

MaxTime == 40

\* Number of TrackInput calls explored.
MaxTracks == 3

\* Number of bytes the engine's handlers are given.
MaxBytes == 2

\* The engine's handlers are given their bytes up to this time (ms).
MaxArrival == 5

\* Number of reads (stdin and PTY together) that return data.
MaxReads == 2

\* Number of window-size signals.
MaxResizes == 1

\* Number of bytes in a chunk a copy loop reads.
MaxChunk == 2

\* Number of times the owner cancels the context.
MaxCancels == 2

\* Number of chunks the two loops of main read, together.
MaxMainChunks == 3

\* ------------------------------------------------------- package queue state

VARIABLES
    cfg,        \* Queue.Config of every queue: name -> config.Queue
    itemChan,   \* Queue.itemChan: the buffered items, oldest first
    itemClosed, \* whether itemChan has been closed (no code closes it)
    stopChan,   \* Queue.stopChan: "open" or "closed"
    stopOnce,   \* Queue.stopOnce: TRUE once its Do has run
    runPc,      \* the position of Queue.run: "select", "play" or "exited"
    curItem,    \* the item Queue.run dequeued last (0: none yet)
    inPlay,     \* player.Play calls of this queue begun and not yet returned
    panicked,   \* a goroutine panicked (send on or close of a closed channel)
    offered,    \* history: number of Add calls made
    accepted,   \* history: the items Add sent on itemChan, in order
    dropped,    \* history: number of items Add dropped
    started,    \* history: the items handed to player.Play, in order
    finished,   \* history: number of player.Play calls that returned
    failed,     \* history: number of player.Play calls that returned an error
    stops,      \* history: number of Stop calls made
    offerSeen   \* history: the value of finished when Add was last called

queueVars == <<cfg, itemChan, itemClosed, stopChan, stopOnce, runPc, curItem,
               inPlay, panicked, offered, accepted, dropped, started, finished,
               failed, stops, offerSeen>>

\* ------------------------------------------------------ package player state

VARIABLES
    now,           \* the monotonic clock read by time.Now and time.Since, in ms
    lastSoundTime, \* OtoPlayer.lastSoundTime: [zero |-> TRUE] until first set
    playPc,        \* where the Play call of each queue's consumer stands:
                   \* "idle", "gate", "mark" or "device"
    devStart,      \* when the playSound call in progress handed over its buffer
    calls          \* history: per queue, one record per Play call that reached
                   \* the gate: when it read the gate, whether and when it
                   \* marked its start, whether it invoked the audio device

playerVars == <<now, lastSoundTime, playPc, devStart, calls>>

\* ------------------------------------------- root package: the echo tracker

VARIABLES
    chars,      \* inputTracker.chars: the recorded (char, timestamp) entries
    timeout,    \* inputTracker.timeout
    tracks,     \* history: number of TrackInput calls made
    tracked,    \* history: per byte, when TrackInput last recorded it (-1: never)
    lastCheck   \* history: the last IsRecentInput call: its byte, its time, its
                \* result, and when the byte had last been recorded

trackerVars == <<chars, timeout, tracks, tracked, lastCheck>>

\* ------------------------------------------------ package chirp: the engine

VARIABLES
    inByte,       \* handleInput: the byte b of the outer loop
    inPending,    \* handleInput: the matching queues the inner loop has yet to Add to
    outByte,      \* handleOutput: the byte b of the outer loop
    outPending,   \* handleOutput: the matching queues the inner loop has yet to Add to
    outEcho,      \* history: outByte had been passed to handleInput less than
                  \* the echo timeout before handleOutput took it up
    inLog,        \* history: the bytes passed to handleInput, with their times
    outCount,     \* history: number of bytes passed to handleOutput
    echoAccepted  \* history: number of items handleOutput enqueued for such echoes

engineVars == <<inByte, inPending, outByte, outPending, outEcho, inLog,
                outCount, echoAccepted>>

\* -------------------------------------------------------- package terminal

VARIABLES
    startPc,      \* Terminal.Start: "new", "pty" (pty.Start done), "started"
                  \* (returned nil), "failed" (returned an error)
    ptyFile,      \* t.ptyFile: "nil", "open", "closed"
    tStopOnce,    \* t.stopOnce: "fresh", "running", "done"
    tStopChan,    \* t.stopChan: "open", "closed"
    stopPc,       \* per caller of Terminal.Stop: "idle", "enter", "close",
                  \* "ptyclose", "leave", "returned"
    restorePc,    \* the goroutine that restores the state: "none", "waiting", "done"
    resizePc,     \* handleResizes: "none", "running", "stopped"
    copyInPc,     \* copyInput: "none", "select", "read", "data", "handler",
                  \* "write", "stop", "exited"
    copyOutPc,    \* copyOutput: likewise
    waitPc,       \* Terminal.Wait: "none", "waiting", "stop", "nil", "err"
    shellExited,  \* the shell process has exited
    tPanicked,    \* a goroutine panicked (close of a closed channel)
    reads,        \* history: number of reads that returned data
    resizes,      \* history: number of SIGWINCH signals handled
    tStopCloses,  \* history: number of close(t.stopChan) executed
    ptyCloses,    \* history: number of t.ptyFile.Close() calls
    restores,     \* history: number of term.Restore calls
    ioErr,        \* history, per copy loop: it has met a read or write error
    lateCalls,    \* history, per copy loop: handler calls made with the stop
                  \* signal closed
    lateWrites    \* history, per copy loop: writes attempted with the stop
                  \* signal closed

termVars == <<startPc, ptyFile, tStopOnce, tStopChan, stopPc, restorePc,
              resizePc, copyInPc, copyOutPc, waitPc, shellExited, tPanicked,
              reads, resizes, tStopCloses, ptyCloses, restores, ioErr,
              lateCalls, lateWrites>>

\* ------------------------------------- configuration loading, the synthesizers

VARIABLES
    tomlFile,     \* the decoded configuration file LoadConfig was last given
    loaded,       \* what LoadConfig returned for it
    created,      \* what NewQueue last returned
    synthLog      \* the last calls of the play functions, with their results

libVars == <<tomlFile, loaded, created, synthLog>>

\* ---------------------------------------- the copy loops with the engine

VARIABLES
    inLeft,       \* handleInput: bytes of data its outer loop has yet to take
    outLeft       \* handleOutput: likewise

relayVars == <<inLeft, outLeft>>

\* No handler is running.
RelayInit == inLeft = 0 /\ outLeft = 0

\* ------------------------------------------- package chirp: the session

VARIABLES
    cStartPc,     \* Chirp.Start: "termstart" (in c.term.Start), "wait" (in
                  \* c.term.Wait), "err" or "returned"
    watcherPc,    \* the goroutine of Chirp.Start: "none", "waiting", "stop"
                  \* (in c.Stop) or "exited"
    ctxDone,      \* the context passed to Chirp.Start has been cancelled
    cancels,      \* history: number of calls of the context's cancel function
    cStopOnce,    \* Chirp.stopOnce: "fresh", "running" or "done"
    cStopChan,    \* Chirp.stopChan: "open" or "closed"
    cStopPc,      \* where each caller of Chirp.Stop stands
    cStopLeft,    \* Chirp.Stop: the queues its loop has yet to stop
    playerClosed, \* c.player.Close has been called
    cPanicked     \* close of the closed Chirp.stopChan

chirpVars == <<cStartPc, watcherPc, ctxDone, cancels, cStopOnce, cStopChan,
               cStopPc, cStopLeft, playerClosed, cPanicked>>

\* The callers of Chirp.Stop: the goroutine of Chirp.Start and the owner.
ChirpStopCallers == {"watcher", "owner"}

\* New has returned; Chirp.Start is about to call c.term.Start.
ChirpInit ==
    /\ cStartPc = "termstart"
    /\ watcherPc = "none"
    /\ ctxDone = FALSE
    /\ cancels = 0
    /\ cStopOnce = "fresh"
    /\ cStopChan = "open"
    /\ cStopPc = [c \in ChirpStopCallers |-> "idle"]
    /\ cStopLeft = {}
    /\ playerClosed = FALSE
    /\ cPanicked = FALSE

\* ------------------------------------------- package main: the two loops

VARIABLES
    launched,   \* PlayChirp goroutines started and not yet at their gate
    outChunks,  \* history: number of chunks the output loop has read
    outChirps,  \* history: number of PlayChirp goroutines the output loop started
    lastOut     \* history: the last chunk of the output loop: its length,
                \* whether a byte of it was a recent input, whether a sound
                \* was within the gap, whether a chirp was started

mainVars == <<launched, outChunks, outChirps, lastOut>>

\* main has started its loops.
MainInit ==
    /\ launched = 0
    /\ outChunks = 0
    /\ outChirps = 0
    /\ lastOut = [valid |-> FALSE, len |-> 0, echo |-> FALSE, gated |-> FALSE,
                  chirp |-> FALSE]

\* --------------------------------------- handleResizes: size propagation

VARIABLES
    sizeSet,    \* handleResizes is past its "Initial resize"
    inherits    \* history: number of pty.InheritSize calls of handleResizes

sizeVars == <<sizeSet, inherits>>

\* NewTerminal: no resize handler runs.
SizeInit ==
    /\ sizeSet = FALSE
    /\ inherits = 0

\* ------------------------------------ package chirp: the rendered-buffer cache

\* Number of PlayChirp calls explored, and number of Read calls io.ReadAll
\* needs to drain a rendered buffer.
MaxCacheCalls == 3

MaxBlocks == 2

\* The goroutines that call PlayChirp (main starts one per chunk).
CacheCallers == {"a", "b"}

\* chirp.Options: Frequency in tenths of a Hz, Duration in ms, Volume in
\* thousandths.
Options(frequency, duration, volume) ==
    [Frequency |-> frequency, Duration |-> duration, Volume |-> volume]

\* The Options PlayChirp is called with: the local-feedback note D5 of a
\* configuration and values close to it, and the note G4.
CacheOptions ==
    { Options(f, 25, v) : f \in {3920, 5872, 5874}, v \in {351, 354} }

\* No Options: the value of a variable that holds none.
NoOptions == Options(0, 0, 0)

VARIABLES
    chirpCache,  \* chirpCache: key -> the id of the *bytes.Reader stored (0: no entry)
    readers,     \* the *bytes.Reader objects made by cacheChirp: id -> what
                 \* was rendered into it, and its read position (in blocks)
    cachePc,     \* position of each PlayChirp call
    cacheReq,    \* the Options of each PlayChirp call
    cacheRdr,    \* the reader getCachedChirp returned to each call (0: none)
    cacheGot,    \* the blocks each call's io.ReadAll has read so far
    cacheOut,    \* history: what each caller's last finished call handed to the device
    cacheCalls   \* history: number of PlayChirp calls made

cacheVars == <<chirpCache, readers, cachePc, cacheReq, cacheRdr, cacheGot,
               cacheOut, cacheCalls>>

\* fmt "%.0f" and "%.2f": x/unit rounded to the nearest whole number; a tie
\* that is exact in float64 (a frequency of n + 0.5) goes to the even one.
RoundHalfEven(x, unit) ==
    IF 2 * (x % unit) < unit THEN x \div unit
    ELSE IF 2 * (x % unit) > unit THEN x \div unit + 1
    ELSE IF (x \div unit) % 2 = 0 THEN x \div unit
    ELSE x \div unit + 1

\* getCacheKey: fmt.Sprintf("%.0f-%.0f-%.2f", Frequency, Duration in ms,
\* Volume): whole Hz, whole ms, hundredths.
getCacheKey(opts) ==
    <<RoundHalfEven(opts.Frequency, 10), opts.Duration,
      RoundHalfEven(opts.Volume, 10)>>

CacheKeys == { getCacheKey(o) : o \in CacheOptions }

\* GenerateChirp(opts) read with io.ReadAll: an empty buffer for volume <= 0,
\* else the blocks 1..MaxBlocks of the rendering of opts.
RenderedBlocks(opts) == IF opts.Volume <= 0 THEN 0 ELSE MaxBlocks

CompleteBuffer(opts) == [i \in 1..RenderedBlocks(opts) |-> i]

\* The package variables at start-up: an empty sync.Map, no call.
CacheInit ==
    /\ chirpCache = [k \in CacheKeys |-> 0]
    /\ readers = [r \in 1..MaxCacheCalls |-> [of |-> NoOptions, pos |-> 0]]
    /\ cachePc = [c \in CacheCallers |-> "idle"]
    /\ cacheReq = [c \in CacheCallers |-> NoOptions]
    /\ cacheRdr = [c \in CacheCallers |-> 0]
    /\ cacheGot = [c \in CacheCallers |-> <<>>]
    /\ cacheOut = [c \in CacheCallers |->
                     [valid |-> FALSE, opts |-> NoOptions, hit |-> FALSE,
                      of |-> NoOptions, data |-> <<>>, device |-> FALSE]]
    /\ cacheCalls = 0

\* ------------------------------- package player: the envelope of a chirp

VARIABLES
    envN,      \* numSamples of the generateChirp call
    envVolume, \* sample.Volume of the call, in percent
    envI,      \* the loop index i handled last (-1: none yet)
    envPhase,  \* the branch calculateEnvelope took for it
    envValue,  \* the envelope it returned, in units of 1/EnvScale(envN)
    envPrev    \* the envelope of the index before

envVars == <<envN, envVolume, envI, envPhase, envValue, envPrev>>

\* The package before any generateChirp call.
EnvInit ==
    /\ envN = 0
    /\ envVolume = 0
    /\ envI = -1
    /\ envPhase = "none"
    /\ envValue = 0
    /\ envPrev = 0

\* ----------------------------------- package terminal: the bytes relayed

VARIABLES
    stdinRead,     \* history: the bytes t.stdin.Read has returned, in order
    ptyWritten,    \* history: the bytes t.ptyFile.Write has written, in order
    ptyRead,       \* history: the bytes t.ptyFile.Read has returned, in order
    stdoutWritten, \* history: the bytes t.stdout.Write has written, in order
    inData,        \* copyInput: data := buf[:n] of the last read
    outData        \* copyOutput: data := buf[:n] of the last read

wireVars == <<stdinRead, ptyWritten, ptyRead, stdoutWritten, inData, outData>>

\* NewTerminal: nothing has been read or written.
WireInit ==
    /\ stdinRead = <<>>
    /\ ptyWritten = <<>>
    /\ ptyRead = <<>>
    /\ stdoutWritten = <<>>
    /\ inData = <<>>
    /\ outData = <<>>

\* ------------------------------- package main: the key of an input chunk

\* len(buf) of the input goroutine's buffer (32 in the code).
InputBufLen == 4

VARIABLES
    keyBuf,       \* buf: index 0..InputBufLen-1 -> byte, as the last Read left it
    keyN,         \* n of the last Read: buf[:n] is what it returned
    keyI,         \* i of the loop over buf[:n]
    keyOverrides, \* the names that cfg.InputSoundOverrides has
    keyOut        \* history: the last getChirpOptionsForInput call

keyVars == <<keyBuf, keyN, keyI, keyOverrides, keyOut>>

\* The bytes of the buffer: ESC, the bytes of the Delete and Up sequences,
\* and a letter.
KeyBytes == {"ESC", "[", "3", "~", "A", "x"}

\* The input goroutine has read n bytes into buf, whose other bytes are
\* those of earlier reads, and its loop is at some i < n.
KeyInit ==
    /\ keyBuf \in [0..(InputBufLen - 1) -> KeyBytes]
    /\ keyN \in 1..InputBufLen
    /\ keyI \in 0..(keyN - 1)
    /\ keyOverrides \in SUBSET {"delete", "up"}
    /\ keyOut = [done |-> FALSE, i |-> 0, reads |-> {}, panic |-> FALSE,
                 name |-> "none"]

\* No call is looked at: one buffer, which no action changes.
KeyIdle ==
    /\ keyBuf = [x \in 0..(InputBufLen - 1) |-> "x"]
    /\ keyN = 1
    /\ keyI = 0
    /\ keyOverrides = {}
    /\ keyOut = [done |-> FALSE, i |-> 0, reads |-> {}, panic |-> FALSE,
                 name |-> "none"]

vars == <<queueVars, playerVars, trackerVars, engineVars, termVars, libVars,
          relayVars, chirpVars, mainVars, sizeVars, cacheVars,
          envVars, wireVars, keyVars>>

\* ------------------------------------------------------------ configuration

\* sample.SampleConfig: Duration in ms, Frequency in Hz, Volume in percent.
SampleConfig(name, duration, frequency, volume) ==
    [Name |-> name, Duration |-> duration, Frequency |-> frequency,
     Volume |-> volume]

\* config.Queue after LoadConfig linked its sample.
QueueConfig(name, match, sample, maxLength) ==
    [Name |-> name, Match |-> match, SampleName |-> sample.Name,
     MaxLength |-> maxLength, Sample |-> sample]

\* [samples.beep] of the README's configuration.
SampleBeep == SampleConfig("beep", 100, 440, 80)

\* One queue "enter" matching "\n", of every capacity up to MaxCap.
SingleQueueConfigs ==
    { [q \in {"enter"} |-> QueueConfig("enter", {<<"\n">>}, SampleBeep, m)] :
        m \in 1..MaxCap }

\* DefaultOptions of the root package: 15 ms at full volume.
SampleTick == SampleConfig("tick", 15, 1000, 100)

\* DefaultConfig: the samples "local" and "remote", the queues "local"
\* (Enter) and "remote" (prompt characters), both of max_length 1.
DefaultConfig ==
    [q \in {"local", "remote"} |->
        IF q = "local"
        THEN QueueConfig("local", {<<"\r">>, <<"\n">>},
                         SampleConfig("local", 50, 392, 30), 1)
        ELSE QueueConfig("remote", {<<"$">>, <<"#">>, <<"%">>},
                         SampleConfig("remote", 50, 587, 30), 1)]

\* The configurations the player's gate is explored with: one trigger with
\* a short sample, and the two triggers of DefaultConfig.
GateConfigs ==
    { [q \in {"enter"} |-> QueueConfig("enter", {<<"\n">>}, SampleTick, 1)],
      DefaultConfig }

\* [samples.error] and [queues.local], [queues.error] of the sample
\* configuration file, the latter with its first pattern, "error:".
PatternConfig ==
    [q \in {"local", "error"} |->
        IF q = "local"
        THEN QueueConfig("local", {<<"\n">>},
                         SampleConfig("local", 40, 392, 30), 1)
        ELSE QueueConfig("error", {<<"e", "r", "r", "o", "r", ":">>},
                         SampleConfig("error", 100, 220, 40), 2)]

\* Two triggers whose pattern sets share the byte "\n".
OverlapConfig ==
    [q \in {"line", "prompt"} |->
        IF q = "line"
        THEN QueueConfig("line", {<<"\r">>, <<"\n">>},
                         SampleConfig("local", 50, 392, 30), 2)
        ELSE QueueConfig("prompt", {<<"$">>, <<"\n">>},
                         SampleConfig("remote", 50, 587, 30), 2)]

Queues == DOMAIN cfg

\* --------------------------------------------------------- package config

\* A nil *sample.SampleConfig.
NilSample == [nil |-> TRUE]

\* The sample and queue names a configuration file uses.
TomlSampleNames == {"a", "b"}

TomlQueueNames == {"local", "remote"}

\* A [samples.x] table as toml.Decode leaves it (Name is not decoded): a
\* valid one and one with duration = 0.
TomlSamples == {SampleConfig("", 40, 392, 30), SampleConfig("", 0, 392, 30)}

\* A [queues.x] table as toml.Decode leaves it: Name empty, Sample nil.
TomlQueues ==
    { [Name |-> "", Match |-> m, SampleName |-> n, MaxLength |-> k,
       Sample |-> NilSample] :
        m \in {{}, {<<"\n">>}}, n \in {"", "a", "b", "c"}, k \in {-1, 0, 1} }

\* The decoded files: any of the samples, any of the queues.
TomlFiles ==
    { [Samples |-> ss, Queues |-> qs] :
        ss \in UNION { [S -> TomlSamples] : S \in SUBSET TomlSampleNames },
        qs \in UNION { [Q -> TomlQueues] : Q \in SUBSET TomlQueueNames } }

EmptyFile == [Samples |-> [n \in {} |-> 0], Queues |-> [n \in {} |-> 0]]

\* SampleConfig.Validate returns nil (volume is in hundredths).
SampleValid(smp) ==
    /\ smp.Duration > 0
    /\ smp.Frequency > 0
    /\ smp.Volume >= 0 /\ smp.Volume <= 100

\* config.Queue.Validate returns nil.
QueueValid(q) ==
    /\ q.Match # {}
    /\ q.SampleName # ""
    /\ q.MaxLength >= 0

\* config.Queue.Validate: max_length 0 becomes 1.
Validated(q) == [q EXCEPT !.MaxLength = IF @ = 0 THEN 1 ELSE @]

\* The mutant of SampleKnown: the lookup's ok is not tested.
SampleKnown_NotTested(samples, q) == TRUE

\* LoadConfig: s, ok := cfg.Samples[queue.SampleName].
SampleKnown(samples, q) == q.SampleName \in DOMAIN samples

\* LoadConfig: the samples named from their keys.
NamedSamples(file) ==
    [n \in DOMAIN file.Samples |-> [file.Samples[n] EXCEPT !.Name = n]]

\* LoadConfig: a queue named from its key, validated and linked to its sample
\* (the lookup of a missing key gives nil).
LinkedQueue(file, name) ==
    [Validated(file.Queues[name]) EXCEPT
        !.Name = name,
        !.Sample = IF file.Queues[name].SampleName \in DOMAIN file.Samples
                   THEN NamedSamples(file)[file.Queues[name].SampleName]
                   ELSE NilSample]

\* LoadConfig after toml.Decode: an error for an invalid sample, an invalid
\* queue or a queue whose sample is unknown; otherwise the configuration.
LoadConfig(file) ==
    IF \/ \E n \in DOMAIN file.Samples : ~SampleValid(file.Samples[n])
       \/ \E q \in DOMAIN file.Queues :
            ~QueueValid(file.Queues[q]) \/ ~SampleKnown(file.Samples, file.Queues[q])
    THEN [done |-> TRUE, err |-> TRUE, cfg |-> EmptyFile]
    ELSE [done |-> TRUE, err |-> FALSE,
          cfg |-> [Samples |-> NamedSamples(file),
                   Queues |-> [q \in DOMAIN file.Queues |-> LinkedQueue(file, q)]]]

\* NewQueue: an error if cfg.Sample == nil, otherwise the queue.
NewQueue(qcfg) ==
    IF qcfg.Sample = NilSample
    THEN [done |-> TRUE, err |-> TRUE, Config |-> qcfg]
    ELSE [done |-> TRUE, err |-> FALSE, Config |-> qcfg]

\* Nothing loaded, nothing created, nothing played.
LibInit ==
    /\ tomlFile = EmptyFile
    /\ loaded = [done |-> FALSE, err |-> FALSE, cfg |-> EmptyFile]
    /\ created = [done |-> FALSE, err |-> FALSE, Config |-> 0]
    /\ synthLog = <<>>

\* ---------------------------------------------------------- synthesizers

\* SampleRate = 48000, ChannelCount = 2 (in package player and in the root
\* package alike).
SampleRate == 48000

ChannelCount == 2

\* 2^e modulo m.
RECURSIVE Pow2Mod(_, _)
Pow2Mod(e, m) == IF e = 0 THEN 1 % m ELSE (2 * Pow2Mod(e - 1, m)) % m

RECURSIVE Pow2(_)
Pow2(e) == IF e = 0 THEN 1 ELSE 2 * Pow2(e - 1)

\* The n with 1000 <= d * 2^n < 2000, for 0 < d < 1000: d/1000 seconds lies
\* in [2^-n, 2^(1-n)), a float64 there is a multiple of 2^-(52+n).
RECURSIVE ShiftOf(_)
ShiftOf(d) == IF d >= 1000 THEN 0 ELSE 1 + ShiftOf(2 * d)

\* The k with 2^k <= x < 2^(k+1), for x > 0.
RECURSIVE Log2(_)
Log2(x) == IF x < 2 THEN 0 ELSE 1 + Log2(x \div 2)

\* duration.Seconds() for a duration of d ms (0 < d < 1000) is
\* float64(d * 1e6) / 1e9, the float64 nearest to d/1000 (ties to even).
\* d * 2^(52+n) = 1000 * q + r: the float64 is q or q + 1 units of 2^-(52+n),
\* and it is q, below d/1000 by r/1000 of a unit, when r < 500, or r = 500
\* and q is even.
SecondsRemainder(d) == (d * Pow2Mod(52 + ShiftOf(d), 1000)) % 1000

SecondsQuotientOdd(d) ==
    (((d * Pow2Mod(52 + ShiftOf(d), 2000)) % 2000) - SecondsRemainder(d))
        \div 1000 = 1

SecondsRoundedDown(d) ==
    \/ SecondsRemainder(d) < 500
    \/ SecondsRemainder(d) = 500 /\ ~SecondsQuotientOdd(d)

\* duration.Seconds() * sampleRate in float64: the exact product is below
\* the whole number SampleRate * d / 1000 by SampleRate * r / 1000 units of
\* 2^-(52+n); the float64s around that number are 2^(k+n) units apart, and
\* the product is rounded to the one below it when it is more than half of
\* that away.
ProductBelowWhole(d) ==
    /\ SecondsRoundedDown(d)
    /\ SampleRate * SecondsRemainder(d) >
          1000 * Pow2(Log2((SampleRate * d) \div 1000) + ShiftOf(d) - 1)

\* numSamples := int(duration.Seconds() * sampleRate), for d ms, 0 < d < 1000:
\* int truncates.
NumSamples(d) ==
    IF ProductBelowWhole(d)
    THEN (SampleRate * d) \div 1000 - 1
    ELSE (SampleRate * d) \div 1000

\* value := int16(amplitude * envelope * math.Sin(phase)) for frame i: what
\* frequency, volume, i and numSamples determine (kept symbolic).
SampleValue(frequency, volume, i, numSamples) ==
    <<frequency, volume, i, numSamples>>

\* The loop of generateChirp: the same value for the left and the right
\* channel of each frame; data has numSamples * ChannelCount entries.
ChirpData(frequency, volume, numSamples) ==
    [x \in 1..(numSamples * ChannelCount) |->
        SampleValue(frequency, volume, (x - 1) \div ChannelCount, numSamples)]

\* OtoPlayer.generateChirp: nil, nil for volume <= 0 or duration <= 0.
OtoGenerateChirp(smp) ==
    IF smp.Volume <= 0 \/ smp.Duration <= 0
    THEN [nil |-> TRUE, data |-> <<>>]
    ELSE [nil |-> FALSE,
          data |-> ChirpData(smp.Frequency, smp.Volume, NumSamples(smp.Duration))]

\* OtoPlayer.Play on a player that is not within the gap: what it generated,
\* whether it returned an error, panicked, handed a buffer to the device.
OtoPlay(smp) ==
    [impl |-> "oto", sample |-> smp, nil |-> OtoGenerateChirp(smp).nil,
     data |-> OtoGenerateChirp(smp).data, err |-> FALSE, panic |-> FALSE,
     device |-> ~OtoGenerateChirp(smp).nil]

\* generateChirp of the root package: nil for volume <= 0 only; a negative
\* duration makes make([]int16, numSamples*ChannelCount) panic; for duration
\* 0 nothing is written to the buffer, whose Bytes() is then nil.
LegacyGenerateChirp(opts) ==
    IF opts.Volume <= 0 THEN [nil |-> TRUE, data |-> <<>>, panic |-> FALSE]
    ELSE IF opts.Duration < 0 THEN [nil |-> TRUE, data |-> <<>>, panic |-> TRUE]
    ELSE IF opts.Duration = 0 THEN [nil |-> TRUE, data |-> <<>>, panic |-> FALSE]
    ELSE [nil |-> FALSE, panic |-> FALSE,
          data |-> ChirpData(opts.Frequency, opts.Volume, NumSamples(opts.Duration))]

\* PlayChirp of the root package, when no sound is within the gap: a nil
\* buffer is reported as the error "failed to generate chirp data", any other
\* goes to playSound.
PlayChirp(opts) ==
    [impl |-> "legacy", sample |-> opts, nil |-> LegacyGenerateChirp(opts).nil,
     data |-> LegacyGenerateChirp(opts).data,
     err |-> LegacyGenerateChirp(opts).nil /\ ~LegacyGenerateChirp(opts).panic,
     panic |-> LegacyGenerateChirp(opts).panic,
     device |-> ~LegacyGenerateChirp(opts).nil]

\* ------------------------------------------------------------- Go channels

\* The mutant of ChanCap: one slot more than max_length.
ChanCap_OneMore(c) == c.MaxLength + 1

\* make(chan string, cfg.MaxLength): the capacity of itemChan.
ChanCap(c) == c.MaxLength

\* The mutant of ChanRecv: the newest buffered item is received.
ChanRecv_Newest(ch) ==
    [item |-> ch[Len(ch)], rest |-> SubSeq(ch, 1, Len(ch) - 1)]

\* case item := <-q.itemChan: the oldest buffered item is received.
ChanRecv(ch) == [item |-> Head(ch), rest |-> Tail(ch)]

\* ---------------------------------------------------------- package queue

\* NewQueue: the state right after construction, the run goroutine started.
QueueInit(configs) ==
    /\ cfg \in configs
    /\ itemChan = [q \in DOMAIN cfg |-> <<>>]
    /\ itemClosed = [q \in DOMAIN cfg |-> FALSE]
    /\ stopChan = [q \in DOMAIN cfg |-> "open"]
    /\ stopOnce = [q \in DOMAIN cfg |-> FALSE]
    /\ runPc = [q \in DOMAIN cfg |-> "select"]
    /\ curItem = [q \in DOMAIN cfg |-> 0]
    /\ inPlay = [q \in DOMAIN cfg |-> 0]
    /\ panicked = FALSE
    /\ offered = [q \in DOMAIN cfg |-> 0]
    /\ accepted = [q \in DOMAIN cfg |-> <<>>]
    /\ dropped = [q \in DOMAIN cfg |-> 0]
    /\ started = [q \in DOMAIN cfg |-> <<>>]
    /\ finished = [q \in DOMAIN cfg |-> 0]
    /\ failed = [q \in DOMAIN cfg |-> 0]
    /\ stops = [q \in DOMAIN cfg |-> 0]
    /\ offerSeen = [q \in DOMAIN cfg |-> 0]

\* The mutant of QueueAdd: a plain (blocking) send, q.itemChan <- item.
QueueAdd_Blocking(q, item) ==
    /\ ~panicked
    /\ ~itemClosed[q]
    /\ Len(itemChan[q]) < ChanCap(cfg[q])
    /\ itemChan' = [itemChan EXCEPT ![q] = Append(@, item)]
    /\ accepted' = [accepted EXCEPT ![q] = Append(@, item)]
    /\ offered' = [offered EXCEPT ![q] = @ + 1]
    /\ offerSeen' = [offerSeen EXCEPT ![q] = finished[q]]
    /\ UNCHANGED <<cfg, itemClosed, stopChan, stopOnce, runPc, curItem, inPlay,
                   panicked, dropped, started, finished, failed, stops>>

\* The mutant of QueueAdd: a full queue evicts its oldest item for the new one.
QueueAdd_EvictOldest(q, item) ==
    /\ ~panicked
    /\ ~itemClosed[q]
    /\ offered' = [offered EXCEPT ![q] = @ + 1]
    /\ offerSeen' = [offerSeen EXCEPT ![q] = finished[q]]
    /\ IF Len(itemChan[q]) < ChanCap(cfg[q])
       THEN /\ itemChan' = [itemChan EXCEPT ![q] = Append(@, item)]
            /\ UNCHANGED dropped
       ELSE /\ itemChan' = [itemChan EXCEPT ![q] = Append(Tail(@), item)]
            /\ dropped' = [dropped EXCEPT ![q] = @ + 1]
    /\ accepted' = [accepted EXCEPT ![q] = Append(@, item)]
    /\ UNCHANGED <<cfg, itemClosed, stopChan, stopOnce, runPc, curItem, inPlay,
                   panicked, started, finished, failed, stops>>

\* Queue.Add: select { case q.itemChan <- item: ... default: drop }.
\* A send on a closed channel panics; a full channel takes the default branch.
QueueAdd(q, item) ==
    /\ ~panicked
    /\ offered' = [offered EXCEPT ![q] = @ + 1]
    /\ offerSeen' = [offerSeen EXCEPT ![q] = finished[q]]
    /\ IF itemClosed[q]
       THEN /\ panicked' = TRUE
            /\ UNCHANGED <<itemChan, accepted, dropped>>
       ELSE IF Len(itemChan[q]) < ChanCap(cfg[q])
       THEN /\ itemChan' = [itemChan EXCEPT ![q] = Append(@, item)]
            /\ accepted' = [accepted EXCEPT ![q] = Append(@, item)]
            /\ UNCHANGED <<dropped, panicked>>
       ELSE /\ dropped' = [dropped EXCEPT ![q] = @ + 1]
            /\ UNCHANGED <<itemChan, accepted, panicked>>
    /\ UNCHANGED <<cfg, itemClosed, stopChan, stopOnce, runPc, curItem, inPlay,
                   started, finished, failed, stops>>

\* The mutant of QueueStop: close(q.stopChan) without the sync.Once.
QueueStop_NoOnce(q) ==
    /\ ~panicked
    /\ stops' = [stops EXCEPT ![q] = @ + 1]
    /\ IF stopChan[q] = "closed"
       THEN panicked' = TRUE /\ UNCHANGED stopChan
       ELSE stopChan' = [stopChan EXCEPT ![q] = "closed"] /\ UNCHANGED panicked
    /\ UNCHANGED <<cfg, itemChan, itemClosed, stopOnce, runPc, curItem, inPlay,
                   offered, accepted, dropped, started, finished, failed,
                   offerSeen>>

\* Queue.Stop: q.stopOnce.Do(func() { close(q.stopChan) }).
QueueStop(q) ==
    /\ ~panicked
    /\ stops' = [stops EXCEPT ![q] = @ + 1]
    /\ IF stopOnce[q]
       THEN UNCHANGED <<stopOnce, stopChan, panicked>>
       ELSE /\ stopOnce' = [stopOnce EXCEPT ![q] = TRUE]
            /\ IF stopChan[q] = "closed"
               THEN panicked' = TRUE /\ UNCHANGED stopChan
               ELSE /\ stopChan' = [stopChan EXCEPT ![q] = "closed"]
                    /\ UNCHANGED panicked
    /\ UNCHANGED <<cfg, itemChan, itemClosed, runPc, curItem, inPlay,
                   offered, accepted, dropped, started, finished, failed,
                   offerSeen>>

\* Queue.run, case <-q.stopChan: return.
RunStop(q) ==
    /\ ~panicked
    /\ runPc[q] = "select"
    /\ stopChan[q] = "closed"
    /\ runPc' = [runPc EXCEPT ![q] = "exited"]
    /\ UNCHANGED <<cfg, itemChan, itemClosed, stopChan, stopOnce, curItem,
                   inPlay, panicked, offered, accepted, dropped, started,
                   finished, failed, stops, offerSeen>>

\* The mutant of RunItem: go q.player.Play(...), the loop does not wait.
RunItem_Async(q) ==
    /\ ~panicked
    /\ runPc[q] = "select"
    /\ itemChan[q] # <<>>
    /\ itemChan' = [itemChan EXCEPT ![q] = ChanRecv(@).rest]
    /\ curItem' = [curItem EXCEPT ![q] = ChanRecv(itemChan[q]).item]
    /\ started' = [started EXCEPT ![q] = Append(@, ChanRecv(itemChan[q]).item)]
    /\ inPlay' = [inPlay EXCEPT ![q] = @ + 1]
    /\ UNCHANGED <<cfg, itemClosed, stopChan, stopOnce, runPc, panicked,
                   offered, accepted, dropped, finished, failed, stops,
                   offerSeen>>

\* The mutant of RunItem: the item is played and stays in the mailbox.
RunItem_KeepsItem(q) ==
    /\ ~panicked
    /\ runPc[q] = "select"
    /\ itemChan[q] # <<>>
    /\ curItem' = [curItem EXCEPT ![q] = ChanRecv(itemChan[q]).item]
    /\ started' = [started EXCEPT ![q] = Append(@, ChanRecv(itemChan[q]).item)]
    /\ inPlay' = [inPlay EXCEPT ![q] = @ + 1]
    /\ runPc' = [runPc EXCEPT ![q] = "play"]
    /\ UNCHANGED <<cfg, itemChan, itemClosed, stopChan, stopOnce, panicked,
                   offered, accepted, dropped, finished, failed, stops,
                   offerSeen>>

\* Queue.run, case item := <-q.itemChan: the item is received and
\* q.player.Play(q.Config.Sample) is called.
RunItem(q) ==
    /\ ~panicked
    /\ runPc[q] = "select"
    /\ itemChan[q] # <<>>
    /\ itemChan' = [itemChan EXCEPT ![q] = ChanRecv(@).rest]
    /\ curItem' = [curItem EXCEPT ![q] = ChanRecv(itemChan[q]).item]
    /\ started' = [started EXCEPT ![q] = Append(@, ChanRecv(itemChan[q]).item)]
    /\ inPlay' = [inPlay EXCEPT ![q] = @ + 1]
    /\ runPc' = [runPc EXCEPT ![q] = "play"]
    /\ UNCHANGED <<cfg, itemClosed, stopChan, stopOnce, panicked,
                   offered, accepted, dropped, finished, failed, stops,
                   offerSeen>>

\* The mutant of RunPlayReturned: on an error the loop returns.
RunPlayReturned_ExitOnError(q, err) ==
    /\ ~panicked
    /\ inPlay[q] > 0
    /\ inPlay' = [inPlay EXCEPT ![q] = @ - 1]
    /\ finished' = [finished EXCEPT ![q] = @ + 1]
    /\ failed' = [failed EXCEPT ![q] = IF err THEN @ + 1 ELSE @]
    /\ runPc' = [runPc EXCEPT ![q] =
                    IF err THEN "exited" ELSE IF @ = "play" THEN "select" ELSE @]
    /\ UNCHANGED <<cfg, itemChan, itemClosed, stopChan, stopOnce, curItem,
                   panicked, offered, accepted, dropped, started, stops,
                   offerSeen>>

\* Queue.run: q.player.Play returned (err says whether with an error, which
\* is logged); the loop selects again.
RunPlayReturned(q, err) ==
    /\ ~panicked
    /\ inPlay[q] > 0
    /\ inPlay' = [inPlay EXCEPT ![q] = @ - 1]
    /\ finished' = [finished EXCEPT ![q] = @ + 1]
    /\ failed' = [failed EXCEPT ![q] = IF err THEN @ + 1 ELSE @]
    /\ runPc' = [runPc EXCEPT ![q] = IF @ = "play" THEN "select" ELSE @]
    /\ UNCHANGED <<cfg, itemChan, itemClosed, stopChan, stopOnce, curItem,
                   panicked, offered, accepted, dropped, started, stops,
                   offerSeen>>

\* --------------------------------------------------------- package player

\* DefaultMinSoundGap = 25 * time.Millisecond.
DefaultMinSoundGap == 25

\* OtoPlayer.minSoundGap as NewOtoPlayer sets it.
minSoundGap == DefaultMinSoundGap

\* The last record of a history, and the history with it replaced.
Last(h) == h[Len(h)]

Amend(h, r) == [h EXCEPT ![Len(h)] = r]

\* NewOtoPlayer: lastSoundTime is the zero time.Time, no call in progress.
PlayerInit ==
    /\ now = 0
    /\ lastSoundTime = [zero |-> TRUE, at |-> 0]
    /\ playPc = [q \in DOMAIN cfg |-> "idle"]
    /\ devStart = [q \in DOMAIN cfg |-> 0]
    /\ calls = [q \in DOMAIN cfg |-> <<>>]

\* The mutant of isSoundPlaying: <= in place of <.
isSoundPlaying_OrEqual ==
    ~lastSoundTime.zero /\ now - lastSoundTime.at <= minSoundGap

\* OtoPlayer.isSoundPlaying: time.Since(p.lastSoundTime) < p.minSoundGap,
\* under p.mu.  The time since the zero time.Time exceeds every gap.
isSoundPlaying ==
    ~lastSoundTime.zero /\ now - lastSoundTime.at < minSoundGap

\* OtoPlayer.generateChirp returns nil for volume <= 0 or duration <= 0.
RendersNothing(sample) == sample.Volume <= 0 \/ sample.Duration <= 0

\* The mutant of PlayGate: a suppressed call marks its start as well.
PlayGate_MarksStart(q) ==
    /\ playPc[q] = "gate"
    /\ calls' = [calls EXCEPT ![q] =
                    Append(@, [gate |-> now, passed |-> ~isSoundPlaying,
                               marked |-> FALSE, mark |-> 0, device |-> FALSE])]
    /\ IF isSoundPlaying
       THEN /\ playPc' = [playPc EXCEPT ![q] = "idle"]
            /\ lastSoundTime' = [zero |-> FALSE, at |-> now]
            /\ RunPlayReturned(q, FALSE)
       ELSE /\ playPc' = [playPc EXCEPT ![q] = "mark"]
            /\ UNCHANGED lastSoundTime
            /\ UNCHANGED queueVars
    /\ UNCHANGED <<now, devStart>>

\* OtoPlayer.Play, first statement: if p.isSoundPlaying() { return nil }.
\* The lock is released before Play goes on to markSoundStart.
PlayGate(q) ==
    /\ playPc[q] = "gate"
    /\ calls' = [calls EXCEPT ![q] =
                    Append(@, [gate |-> now, passed |-> ~isSoundPlaying,
                               marked |-> FALSE, mark |-> 0, device |-> FALSE])]
    /\ IF isSoundPlaying
       THEN /\ playPc' = [playPc EXCEPT ![q] = "idle"]
            /\ RunPlayReturned(q, FALSE)
       ELSE /\ playPc' = [playPc EXCEPT ![q] = "mark"]
            /\ UNCHANGED queueVars
    /\ UNCHANGED <<now, lastSoundTime, devStart>>

\* OtoPlayer.Play after the gate: p.markSoundStart() sets lastSoundTime to
\* time.Now(); generateChirp renders the buffer; a nil buffer returns nil,
\* any other is handed to playSound, which blocks.
PlayMark(q) ==
    /\ playPc[q] = "mark"
    /\ lastSoundTime' = [zero |-> FALSE, at |-> now]
    /\ IF RendersNothing(cfg[q].Sample)
       THEN /\ calls' = [calls EXCEPT ![q] = Amend(@,
                            [Last(@) EXCEPT !.marked = TRUE, !.mark = now])]
            /\ playPc' = [playPc EXCEPT ![q] = "idle"]
            /\ RunPlayReturned(q, FALSE)
            /\ UNCHANGED devStart
       ELSE /\ calls' = [calls EXCEPT ![q] = Amend(@,
                            [Last(@) EXCEPT !.marked = TRUE, !.mark = now,
                                            !.device = TRUE])]
            /\ playPc' = [playPc EXCEPT ![q] = "device"]
            /\ devStart' = [devStart EXCEPT ![q] = now]
            /\ UNCHANGED queueVars
    /\ UNCHANGED now

\* The mutant of PlayDeviceDone: playSound returns without waiting for the
\* device to play the buffer.
PlayDeviceDone_NoWait(q) ==
    /\ playPc[q] = "device"
    /\ playPc' = [playPc EXCEPT ![q] = "idle"]
    /\ RunPlayReturned(q, FALSE)
    /\ UNCHANGED <<now, lastSoundTime, devStart, calls>>

\* OtoPlayer.playSound: player.IsPlaying() turned false once the device had
\* played the buffer, player.Err() is nil; Play returns nil.
PlayDeviceDone(q) ==
    /\ playPc[q] = "device"
    /\ now >= devStart[q] + cfg[q].Sample.Duration
    /\ playPc' = [playPc EXCEPT ![q] = "idle"]
    /\ RunPlayReturned(q, FALSE)
    /\ UNCHANGED <<now, lastSoundTime, devStart, calls>>

\* OtoPlayer.playSound: the device reports an error (at any moment); Play
\* returns it wrapped.
PlayDeviceErr(q) ==
    /\ playPc[q] = "device"
    /\ playPc' = [playPc EXCEPT ![q] = "idle"]
    /\ RunPlayReturned(q, TRUE)
    /\ UNCHANGED <<now, lastSoundTime, devStart, calls>>

\* Time passes, up to the limit.
ClockTickTo(limit) ==
    /\ now + Quantum <= limit
    /\ now' = now + Quantum
    /\ UNCHANGED <<lastSoundTime, playPc, devStart, calls>>

ClockTick == ClockTickTo(MaxTime)

\* ------------------------------------------- root package: the echo tracker

\* DefaultEchoTimeout = 1 * time.Millisecond.
DefaultEchoTimeout == 1

\* The bytes TrackInput and IsRecentInput are called with.
TrackedBytes == {"a", "b"}

\* The echo timeouts explored: the default, and 10 ms set with
\* SetEchoTimeout at start-up (echo_timeout_ms of the configuration).
EchoTimeouts == {DefaultEchoTimeout, 10}

\* inputTracker = &inputBuffer{timeout: echoTimeout}, SetEchoTimeout(t).
TrackerInit(timeouts) ==
    /\ chars = <<>>
    /\ timeout \in timeouts
    /\ tracks = 0
    /\ tracked = [c \in TrackedBytes |-> -1]
    /\ lastCheck = [valid |-> FALSE, char |-> "a", at |-> 0, result |-> FALSE,
                    recorded |-> -1]

\* The mutant of Fresh: an entry never expires.
Fresh_Always(ic) == TRUE

\* now.Sub(ic.timestamp) < inputTracker.timeout: the entry is kept.
Fresh(ic) == now - ic.timestamp < timeout

\* The loops of TrackInput and IsRecentInput: the entries that are kept,
\* in order.
RECURSIVE ValidChars(_)
ValidChars(cs) ==
    IF cs = <<>> THEN <<>>
    ELSE IF Fresh(Head(cs)) THEN <<Head(cs)>> \o ValidChars(Tail(cs))
    ELSE ValidChars(Tail(cs))

\* TrackInput(c): under inputTracker.mu, drop the old entries and append
\* (c, time.Now()).
TrackInput(c) ==
    /\ chars' = Append(ValidChars(chars), [char |-> c, timestamp |-> now])
    /\ tracks' = tracks + 1
    /\ tracked' = [tracked EXCEPT ![c] = now]
    /\ UNCHANGED <<timeout, lastCheck>>

\* The result of IsRecentInput(c): some kept entry holds c.
IsRecent(c) == \E i \in 1..Len(chars) : Fresh(chars[i]) /\ chars[i].char = c

\* The mutant of IsRecentInput: the window is left as it is.
IsRecentInput_NoPrune(c) ==
    /\ lastCheck' = [valid |-> TRUE, char |-> c, at |-> now,
                     result |-> IsRecent(c), recorded |-> tracked[c]]
    /\ UNCHANGED <<chars, timeout, tracks, tracked>>

\* IsRecentInput(c): under inputTracker.mu, drop the old entries and report
\* whether a kept one holds c.
IsRecentInput(c) ==
    /\ chars' = ValidChars(chars)
    /\ lastCheck' = [valid |-> TRUE, char |-> c, at |-> now,
                     result |-> IsRecent(c), recorded |-> tracked[c]]
    /\ UNCHANGED <<timeout, tracks, tracked>>

\* ------------------------------------------------ package chirp: the engine

\* The bytes the handlers are given: Enter and a prompt character (which
\* matches no queue of the one-trigger configuration).
EngineBytes == {"\n", "$"}

\* config.Queue.MatchesInput: string(b) equals one of the patterns.
MatchesInput(q, b) == \E pattern \in cfg[q].Match : pattern = <<b>>

\* config.Queue.MatchesOutput: the same logic as input matching.
MatchesOutput(q, b) == MatchesInput(q, b)

\* New: the handlers are idle.
EngineInit ==
    /\ inByte = "$"
    /\ inPending = {}
    /\ outByte = "$"
    /\ outPending = {}
    /\ outEcho = FALSE
    /\ inLog = <<>>
    /\ outCount = 0
    /\ echoAccepted = 0

\* Byte b was passed to handleInput less than the echo timeout ago.
PassedToInput(b) ==
    \E i \in 1..Len(inLog) :
        inLog[i].byte = b /\ now - inLog[i].at < DefaultEchoTimeout

\* The mutant of HandleInputByte: the byte is offered to every trigger.
HandleInputByte_EveryQueue(b) ==
    /\ inPending = {}
    /\ inByte' = b
    /\ inPending' = Queues
    /\ inLog' = Append(inLog, [byte |-> b, at |-> now])
    /\ UNCHANGED <<outByte, outPending, outEcho, outCount, echoAccepted>>

\* Chirp.handleInput, outer loop: the next byte b of data; the inner loop
\* is to visit the queues (in the map's order, which is any).
HandleInputByte(b) ==
    /\ inPending = {}
    /\ inByte' = b
    /\ inPending' = {q \in Queues : MatchesInput(q, b)}
    /\ inLog' = Append(inLog, [byte |-> b, at |-> now])
    /\ UNCHANGED <<outByte, outPending, outEcho, outCount, echoAccepted>>

\* Chirp.handleInput, inner loop: q.Add(string(b)) on a queue that matches.
HandleInputAdd(q) ==
    /\ q \in inPending
    /\ QueueAdd(q, inByte)
    /\ inPending' = inPending \ {q}
    /\ UNCHANGED <<inByte, outByte, outPending, outEcho, inLog, outCount,
                   echoAccepted>>

\* Chirp.handleOutput, outer loop: the next byte b of data.  Nothing is
\* looked up about the input: the byte goes to the matching as it is.
HandleOutputByte(b) ==
    /\ outPending = {}
    /\ outByte' = b
    /\ outPending' = {q \in Queues : MatchesOutput(q, b)}
    /\ outEcho' = PassedToInput(b)
    /\ outCount' = outCount + 1
    /\ UNCHANGED <<inByte, inPending, inLog, echoAccepted>>

\* Chirp.handleOutput, inner loop: q.Add(string(b)) on a queue that matches.
HandleOutputAdd(q) ==
    /\ q \in outPending
    /\ QueueAdd(q, outByte)
    /\ outPending' = outPending \ {q}
    /\ echoAccepted' =
         IF outEcho /\ accepted'[q] # accepted[q]
         THEN echoAccepted + 1 ELSE echoAccepted
    /\ UNCHANGED <<inByte, inPending, outByte, outEcho, inLog, outCount>>

\* OtoPlayer.playSound: every goroutine that can run sleeps in the loop
\* for player.IsPlaying() { time.Sleep(time.Millisecond) }; time passes
\* until the first device finishes its buffer.
DeviceWait ==
    /\ now + Quantum > MaxArrival
    /\ \E q \in Queues :
        /\ playPc[q] = "device"
        /\ now < devStart[q] + cfg[q].Sample.Duration
        /\ \A r \in Queues :
             (playPc[r] = "device" /\ now < devStart[r] + cfg[r].Sample.Duration)
                => devStart[q] + cfg[q].Sample.Duration
                     <= devStart[r] + cfg[r].Sample.Duration
        /\ now' = devStart[q] + cfg[q].Sample.Duration
    /\ UNCHANGED <<lastSoundTime, playPc, devStart, calls>>

\* -------------------------------------------------------- package terminal

\* The callers of Terminal.Stop: the two copy loops, Wait, and an external
\* caller (Chirp.Stop on cancellation).
StopCallers == {"copyInput", "copyOutput", "wait", "external"}

\* The two copy loops.
CopyLoops == {"copyInput", "copyOutput"}

\* NewTerminal: stopChan is made, nothing is started.
TermInit ==
    /\ startPc = "new"
    /\ ptyFile = "nil"
    /\ tStopOnce = "fresh"
    /\ tStopChan = "open"
    /\ stopPc = [c \in StopCallers |-> "idle"]
    /\ restorePc = "none"
    /\ resizePc = "none"
    /\ copyInPc = "none"
    /\ copyOutPc = "none"
    /\ waitPc = "none"
    /\ shellExited = FALSE
    /\ tPanicked = FALSE
    /\ reads = 0
    /\ resizes = 0
    /\ tStopCloses = 0
    /\ ptyCloses = 0
    /\ restores = 0
    /\ ioErr = [c \in CopyLoops |-> FALSE]
    /\ lateCalls = [c \in CopyLoops |-> 0]
    /\ lateWrites = [c \in CopyLoops |-> 0]

\* Terminal.Start: pty.Start(t.cmd).  On an error Start returns it; otherwise
\* t.ptyFile is set and go t.handleResizes() is started.
StartPty(ok) ==
    /\ ~tPanicked
    /\ startPc = "new"
    /\ IF ok
       THEN /\ startPc' = "pty"
            /\ ptyFile' = "open"
            /\ resizePc' = "running"
       ELSE /\ startPc' = "failed"
            /\ UNCHANGED <<ptyFile, resizePc>>
    /\ UNCHANGED <<tStopOnce, tStopChan, stopPc, restorePc, copyInPc,
                   copyOutPc, waitPc, shellExited, tPanicked, reads, resizes,
                   tStopCloses, ptyCloses, restores>>
    /\ UNCHANGED <<ioErr, lateCalls, lateWrites>>

\* Terminal.Start: term.MakeRaw.  On an error t.ptyFile.Close() and the error
\* is returned; otherwise the restoring goroutine, copyInput and copyOutput
\* are started and Start returns nil.
StartMakeRaw(ok) ==
    /\ ~tPanicked
    /\ startPc = "pty"
    /\ IF ok
       THEN /\ startPc' = "started"
            /\ restorePc' = "waiting"
            /\ copyInPc' = "select"
            /\ copyOutPc' = "select"
            /\ UNCHANGED <<ptyFile, ptyCloses>>
       ELSE /\ startPc' = "failed"
            /\ ptyFile' = "closed"
            /\ ptyCloses' = ptyCloses + 1
            /\ UNCHANGED <<restorePc, copyInPc, copyOutPc>>
    /\ UNCHANGED <<tStopOnce, tStopChan, stopPc, resizePc, waitPc,
                   shellExited, tPanicked, reads, resizes, tStopCloses,
                   restores>>
    /\ UNCHANGED <<ioErr, lateCalls, lateWrites>>

\* The goroutine started by Start: <-t.stopChan, then term.Restore.
RestoreRun ==
    /\ ~tPanicked
    /\ restorePc = "waiting"
    /\ tStopChan = "closed"
    /\ restorePc' = "done"
    /\ restores' = restores + 1
    /\ UNCHANGED <<startPc, ptyFile, tStopOnce, tStopChan, stopPc, resizePc,
                   copyInPc, copyOutPc, waitPc, shellExited, tPanicked, reads,
                   resizes, tStopCloses, ptyCloses>>
    /\ UNCHANGED <<ioErr, lateCalls, lateWrites>>

\* The mutant of StopEnter: the body runs without the sync.Once.
StopEnter_NoOnce(c) ==
    /\ ~tPanicked
    /\ stopPc[c] = "enter"
    /\ stopPc' = [stopPc EXCEPT ![c] = "close"]
    /\ UNCHANGED <<startPc, ptyFile, tStopOnce, tStopChan, restorePc,
                   resizePc, copyInPc, copyOutPc, waitPc, shellExited,
                   tPanicked, reads, resizes, tStopCloses, ptyCloses, restores>>
    /\ UNCHANGED <<ioErr, lateCalls, lateWrites>>

\* Terminal.Stop: t.stopOnce.Do(f).  The first caller runs f; a caller that
\* finds f running waits for it to finish; a caller that finds it done returns.
StopEnter(c) ==
    /\ ~tPanicked
    /\ stopPc[c] = "enter"
    /\ tStopOnce # "running"
    /\ IF tStopOnce = "fresh"
       THEN /\ tStopOnce' = "running"
            /\ stopPc' = [stopPc EXCEPT ![c] = "close"]
       ELSE /\ stopPc' = [stopPc EXCEPT ![c] = "leave"]
            /\ UNCHANGED tStopOnce
    /\ UNCHANGED <<startPc, ptyFile, tStopChan, restorePc, resizePc,
                   copyInPc, copyOutPc, waitPc, shellExited, tPanicked, reads,
                   resizes, tStopCloses, ptyCloses, restores>>
    /\ UNCHANGED <<ioErr, lateCalls, lateWrites>>

\* Terminal.Stop, in f: close(t.stopChan).  Closing a closed channel panics.
StopClose(c) ==
    /\ ~tPanicked
    /\ stopPc[c] = "close"
    /\ IF tStopChan = "closed"
       THEN /\ tPanicked' = TRUE
            /\ UNCHANGED <<tStopChan, tStopCloses, stopPc>>
       ELSE /\ tStopChan' = "closed"
            /\ tStopCloses' = tStopCloses + 1
            /\ stopPc' = [stopPc EXCEPT ![c] = "ptyclose"]
            /\ UNCHANGED tPanicked
    /\ UNCHANGED <<startPc, ptyFile, tStopOnce, restorePc, resizePc,
                   copyInPc, copyOutPc, waitPc, shellExited, reads, resizes,
                   ptyCloses, restores>>
    /\ UNCHANGED <<ioErr, lateCalls, lateWrites>>

\* Terminal.Stop, in f: if t.ptyFile != nil { t.ptyFile.Close() }; f is done.
StopPtyClose(c) ==
    /\ ~tPanicked
    /\ stopPc[c] = "ptyclose"
    /\ IF ptyFile # "nil"
       THEN ptyFile' = "closed" /\ ptyCloses' = ptyCloses + 1
       ELSE UNCHANGED <<ptyFile, ptyCloses>>
    /\ tStopOnce' = "done"
    /\ stopPc' = [stopPc EXCEPT ![c] = "leave"]
    /\ UNCHANGED <<startPc, tStopChan, restorePc, resizePc, copyInPc,
                   copyOutPc, waitPc, shellExited, tPanicked, reads, resizes,
                   tStopCloses, restores>>
    /\ UNCHANGED <<ioErr, lateCalls, lateWrites>>

\* Terminal.Stop returns to its caller: a copy loop returns after it, Wait
\* returns nil after it.
StopReturn(c) ==
    /\ ~tPanicked
    /\ stopPc[c] = "leave"
    /\ stopPc' = [stopPc EXCEPT ![c] = "returned"]
    /\ copyInPc' = IF c = "copyInput" THEN "exited" ELSE copyInPc
    /\ copyOutPc' = IF c = "copyOutput" THEN "exited" ELSE copyOutPc
    /\ waitPc' = IF c = "wait" THEN "nil" ELSE waitPc
    /\ UNCHANGED <<startPc, ptyFile, tStopOnce, tStopChan, restorePc,
                   resizePc, shellExited, tPanicked, reads, resizes,
                   tStopCloses, ptyCloses, restores>>
    /\ UNCHANGED <<ioErr, lateCalls, lateWrites>>

\* Chirp.Stop (cancellation) calls c.term.Stop(), once Start has returned.
ExternalStop ==
    /\ ~tPanicked
    /\ startPc \in {"started", "failed"}
    /\ stopPc["external"] = "idle"
    /\ stopPc' = [stopPc EXCEPT !["external"] = "enter"]
    /\ UNCHANGED <<startPc, ptyFile, tStopOnce, tStopChan, restorePc,
                   resizePc, copyInPc, copyOutPc, waitPc, shellExited,
                   tPanicked, reads, resizes, tStopCloses, ptyCloses, restores>>
    /\ UNCHANGED <<ioErr, lateCalls, lateWrites>>

\* Terminal.Stop called by the owner of the Terminal before Start, the whole
\* call: no goroutine exists yet, f runs at once; close(t.stopChan), and
\* t.ptyFile is nil so nothing else is closed.
StopBeforeStart ==
    /\ ~tPanicked
    /\ startPc = "new"
    /\ stopPc["external"] = "idle"
    /\ tStopOnce = "fresh"
    /\ tStopOnce' = "done"
    /\ tStopChan' = "closed"
    /\ tStopCloses' = tStopCloses + 1
    /\ stopPc' = [stopPc EXCEPT !["external"] = "returned"]
    /\ UNCHANGED <<startPc, ptyFile, restorePc, resizePc, copyInPc, copyOutPc,
                   waitPc, shellExited, tPanicked, reads, resizes, ptyCloses,
                   restores, ioErr, lateCalls, lateWrites>>

\* handleResizes, case <-ch: a SIGWINCH arrives and pty.InheritSize is
\* called (an error is logged).
ResizeSignal ==
    /\ ~tPanicked
    /\ resizePc = "running"
    /\ resizes < MaxResizes
    /\ resizes' = resizes + 1
    /\ UNCHANGED <<startPc, ptyFile, tStopOnce, tStopChan, stopPc, restorePc,
                   resizePc, copyInPc, copyOutPc, waitPc, shellExited,
                   tPanicked, reads, tStopCloses, ptyCloses, restores>>
    /\ UNCHANGED <<ioErr, lateCalls, lateWrites>>

\* handleResizes, case <-t.stopChan: return.
ResizeStop ==
    /\ ~tPanicked
    /\ resizePc = "running"
    /\ tStopChan = "closed"
    /\ resizePc' = "stopped"
    /\ UNCHANGED <<startPc, ptyFile, tStopOnce, tStopChan, stopPc, restorePc,
                   copyInPc, copyOutPc, waitPc, shellExited, tPanicked,
                   reads, resizes, tStopCloses, ptyCloses, restores, ioErr,
                   lateCalls, lateWrites>>

\* The mutant of ResizeInitial: the handler enters its loop without the
\* initial pty.InheritSize.
ResizeInitial_Skipped ==
    /\ ~tPanicked
    /\ resizePc = "running"
    /\ ~sizeSet
    /\ sizeSet' = TRUE
    /\ UNCHANGED inherits

\* handleResizes, "Initial resize": pty.InheritSize is called once before the
\* select loop is entered (an error is logged).
ResizeInitial ==
    /\ ~tPanicked
    /\ resizePc = "running"
    /\ ~sizeSet
    /\ sizeSet' = TRUE
    /\ inherits' = inherits + 1

\* handleResizes, case <-ch: the select is reached only after the initial
\* resize, and the case calls pty.InheritSize.
ResizeNotified ==
    /\ sizeSet
    /\ inherits' = inherits + 1
    /\ UNCHANGED sizeSet

\* handleResizes, case <-t.stopChan: the select is reached only after the
\* initial resize, and the case returns without a call.
ResizeStopped ==
    /\ sizeSet
    /\ UNCHANGED sizeVars

\* The mutant of CopyInSelect: the stop signal is not looked at.
CopyInSelect_NoCheck ==
    /\ ~tPanicked
    /\ copyInPc = "select"
    /\ copyInPc' = "read"
    /\ UNCHANGED <<startPc, ptyFile, tStopOnce, tStopChan, stopPc, restorePc,
                   resizePc, copyOutPc, waitPc, shellExited, tPanicked,
                   reads, resizes, tStopCloses, ptyCloses, restores, ioErr,
                   lateCalls, lateWrites>>

\* copyInput, select: <-t.stopChan returns when the channel is closed, the
\* default case goes on to t.stdin.Read.
CopyInSelect ==
    /\ ~tPanicked
    /\ copyInPc = "select"
    /\ copyInPc' = IF tStopChan = "closed" THEN "exited" ELSE "read"
    /\ UNCHANGED <<startPc, ptyFile, tStopOnce, tStopChan, stopPc, restorePc,
                   resizePc, copyOutPc, waitPc, shellExited, tPanicked,
                   reads, resizes, tStopCloses, ptyCloses, restores, ioErr,
                   lateCalls, lateWrites>>

\* copyInput: t.stdin.Read returned data, or an error, on which t.Stop()
\* is called.
CopyInRead(ok) ==
    /\ ~tPanicked
    /\ copyInPc = "read"
    /\ IF ok
       THEN /\ reads < MaxReads
            /\ reads' = reads + 1
            /\ copyInPc' = "data"
            /\ UNCHANGED <<stopPc, ioErr>>
       ELSE /\ copyInPc' = "stop"
            /\ stopPc' = [stopPc EXCEPT !["copyInput"] = "enter"]
            /\ ioErr' = [ioErr EXCEPT !["copyInput"] = TRUE]
            /\ UNCHANGED reads
    /\ UNCHANGED <<startPc, ptyFile, tStopOnce, tStopChan, restorePc,
                   resizePc, copyOutPc, waitPc, shellExited, tPanicked,
                   resizes, tStopCloses, ptyCloses, restores, lateCalls,
                   lateWrites>>

\* The mutant of CopyInCallHandler: the handler is started and not waited for.
CopyInCallHandler_Async ==
    /\ ~tPanicked
    /\ copyInPc = "data"
    /\ copyInPc' = "write"
    /\ lateCalls' = [lateCalls EXCEPT !["copyInput"] = IF tStopChan = "closed" THEN @ + 1 ELSE @]
    /\ UNCHANGED <<startPc, ptyFile, tStopOnce, tStopChan, stopPc, restorePc,
                   resizePc, copyOutPc, waitPc, shellExited, tPanicked,
                   reads, resizes, tStopCloses, ptyCloses, restores, ioErr,
                   lateWrites>>

\* copyInput: n > 0, t.HandleInput(data) is called.
CopyInCallHandler ==
    /\ ~tPanicked
    /\ copyInPc = "data"
    /\ copyInPc' = "handler"
    /\ lateCalls' = [lateCalls EXCEPT !["copyInput"] = IF tStopChan = "closed" THEN @ + 1 ELSE @]
    /\ UNCHANGED <<startPc, ptyFile, tStopOnce, tStopChan, stopPc, restorePc,
                   resizePc, copyOutPc, waitPc, shellExited, tPanicked,
                   reads, resizes, tStopCloses, ptyCloses, restores, ioErr,
                   lateWrites>>

\* copyInput: t.HandleInput returned (an error it returns is logged).
CopyInHandlerReturned ==
    /\ ~tPanicked
    /\ copyInPc = "handler"
    /\ copyInPc' = "write"
    /\ UNCHANGED <<startPc, ptyFile, tStopOnce, tStopChan, stopPc, restorePc,
                   resizePc, copyOutPc, waitPc, shellExited, tPanicked,
                   reads, resizes, tStopCloses, ptyCloses, restores, ioErr,
                   lateCalls, lateWrites>>

\* The mutant of CopyInWrite: a write error is logged and the loop goes on.
CopyInWrite_GoOn(ok) ==
    /\ ~tPanicked
    /\ copyInPc = "write"
    /\ ok => ptyFile = "open"
    /\ lateWrites' = [lateWrites EXCEPT !["copyInput"] = IF tStopChan = "closed" THEN @ + 1 ELSE @]
    /\ copyInPc' = "select"
    /\ ioErr' = [ioErr EXCEPT !["copyInput"] = @ \/ ~ok]
    /\ UNCHANGED <<startPc, ptyFile, tStopOnce, tStopChan, stopPc, restorePc,
                   resizePc, copyOutPc, waitPc, shellExited, tPanicked,
                   reads, resizes, tStopCloses, ptyCloses, restores,
                   lateCalls>>

\* copyInput: t.ptyFile.Write(data); on a write error t.Stop() is called.
\* A write to the closed PTY always fails.
CopyInWrite(ok) ==
    /\ ~tPanicked
    /\ copyInPc = "write"
    /\ ok => ptyFile = "open"
    /\ lateWrites' = [lateWrites EXCEPT !["copyInput"] = IF tStopChan = "closed" THEN @ + 1 ELSE @]
    /\ IF ok
       THEN /\ copyInPc' = "select"
            /\ UNCHANGED <<stopPc, ioErr>>
       ELSE /\ copyInPc' = "stop"
            /\ stopPc' = [stopPc EXCEPT !["copyInput"] = "enter"]
            /\ ioErr' = [ioErr EXCEPT !["copyInput"] = TRUE]
    /\ UNCHANGED <<startPc, ptyFile, tStopOnce, tStopChan, restorePc,
                   resizePc, copyOutPc, waitPc, shellExited, tPanicked,
                   reads, resizes, tStopCloses, ptyCloses, restores,
                   lateCalls>>

\* The mutant of CopyOutSelect: the stop signal is not looked at.
CopyOutSelect_NoCheck ==
    /\ ~tPanicked
    /\ copyOutPc = "select"
    /\ copyOutPc' = "read"
    /\ UNCHANGED <<startPc, ptyFile, tStopOnce, tStopChan, stopPc, restorePc,
                   resizePc, copyInPc, waitPc, shellExited, tPanicked, reads,
                   resizes, tStopCloses, ptyCloses, restores, ioErr,
                   lateCalls, lateWrites>>

\* copyOutput, select: <-t.stopChan returns when the channel is closed, the
\* default case goes on to t.ptyFile.Read.
CopyOutSelect ==
    /\ ~tPanicked
    /\ copyOutPc = "select"
    /\ copyOutPc' = IF tStopChan = "closed" THEN "exited" ELSE "read"
    /\ UNCHANGED <<startPc, ptyFile, tStopOnce, tStopChan, stopPc, restorePc,
                   resizePc, copyInPc, waitPc, shellExited, tPanicked, reads,
                   resizes, tStopCloses, ptyCloses, restores, ioErr,
                   lateCalls, lateWrites>>

\* copyOutput: t.ptyFile.Read returned data, or an error, on which t.Stop()
\* is called.  The PTY reports EOF or an I/O error once the shell
\* has exited or the PTY is closed.
CopyOutRead(ok) ==
    /\ ~tPanicked
    /\ copyOutPc = "read"
    /\ IF ok
       THEN /\ ptyFile = "open"
            /\ reads < MaxReads
            /\ reads' = reads + 1
            /\ copyOutPc' = "data"
            /\ UNCHANGED <<stopPc, ioErr>>
       ELSE /\ shellExited \/ ptyFile # "open"
            /\ copyOutPc' = "stop"
            /\ stopPc' = [stopPc EXCEPT !["copyOutput"] = "enter"]
            /\ ioErr' = [ioErr EXCEPT !["copyOutput"] = TRUE]
            /\ UNCHANGED reads
    /\ UNCHANGED <<startPc, ptyFile, tStopOnce, tStopChan, restorePc,
                   resizePc, copyInPc, waitPc, shellExited, tPanicked,
                   resizes, tStopCloses, ptyCloses, restores, lateCalls,
                   lateWrites>>

\* copyOutput: n > 0, t.HandleOutput(data) is called.
CopyOutCallHandler ==
    /\ ~tPanicked
    /\ copyOutPc = "data"
    /\ copyOutPc' = "handler"
    /\ lateCalls' = [lateCalls EXCEPT !["copyOutput"] = IF tStopChan = "closed" THEN @ + 1 ELSE @]
    /\ UNCHANGED <<startPc, ptyFile, tStopOnce, tStopChan, stopPc, restorePc,
                   resizePc, copyInPc, waitPc, shellExited, tPanicked, reads,
                   resizes, tStopCloses, ptyCloses, restores, ioErr,
                   lateWrites>>

\* copyOutput: t.HandleOutput returned (an error it returns is logged).
CopyOutHandlerReturned ==
    /\ ~tPanicked
    /\ copyOutPc = "handler"
    /\ copyOutPc' = "write"
    /\ UNCHANGED <<startPc, ptyFile, tStopOnce, tStopChan, stopPc, restorePc,
                   resizePc, copyInPc, waitPc, shellExited, tPanicked, reads,
                   resizes, tStopCloses, ptyCloses, restores, ioErr,
                   lateCalls, lateWrites>>

\* The mutant of CopyOutWrite: a write error is logged and the loop goes on.
CopyOutWrite_GoOn(ok) ==
    /\ ~tPanicked
    /\ copyOutPc = "write"
    /\ lateWrites' = [lateWrites EXCEPT !["copyOutput"] = IF tStopChan = "closed" THEN @ + 1 ELSE @]
    /\ copyOutPc' = "select"
    /\ ioErr' = [ioErr EXCEPT !["copyOutput"] = @ \/ ~ok]
    /\ UNCHANGED <<startPc, ptyFile, tStopOnce, tStopChan, stopPc, restorePc,
                   resizePc, copyInPc, waitPc, shellExited, tPanicked, reads,
                   resizes, tStopCloses, ptyCloses, restores, lateCalls>>

\* copyOutput: t.stdout.Write(data); on a write error t.Stop() is called.
CopyOutWrite(ok) ==
    /\ ~tPanicked
    /\ copyOutPc = "write"
    /\ lateWrites' = [lateWrites EXCEPT !["copyOutput"] = IF tStopChan = "closed" THEN @ + 1 ELSE @]
    /\ IF ok
       THEN /\ copyOutPc' = "select"
            /\ UNCHANGED <<stopPc, ioErr>>
       ELSE /\ copyOutPc' = "stop"
            /\ stopPc' = [stopPc EXCEPT !["copyOutput"] = "enter"]
            /\ ioErr' = [ioErr EXCEPT !["copyOutput"] = TRUE]
    /\ UNCHANGED <<startPc, ptyFile, tStopOnce, tStopChan, restorePc,
                   resizePc, copyInPc, waitPc, shellExited, tPanicked, reads,
                   resizes, tStopCloses, ptyCloses, restores, lateCalls>>

\* Terminal.Wait is called (by Chirp.Start, after Start returned nil):
\* t.cmd.Process is set, so it goes on to t.cmd.Process.Wait().
WaitCall ==
    /\ ~tPanicked
    /\ startPc = "started"
    /\ waitPc = "none"
    /\ waitPc' = "waiting"
    /\ UNCHANGED <<startPc, ptyFile, tStopOnce, tStopChan, stopPc, restorePc,
                   resizePc, copyInPc, copyOutPc, shellExited, tPanicked,
                   reads, resizes, tStopCloses, ptyCloses, restores, ioErr,
                   lateCalls, lateWrites>>

\* The mutant of WaitProcess: Wait returns nil without calling t.Stop().
WaitProcess_NoStop(ok) ==
    /\ ~tPanicked
    /\ waitPc = "waiting"
    /\ IF ok
       THEN /\ shellExited
            /\ waitPc' = "nil"
            /\ UNCHANGED stopPc
       ELSE /\ waitPc' = "err"
            /\ UNCHANGED stopPc
    /\ UNCHANGED <<startPc, ptyFile, tStopOnce, tStopChan, restorePc,
                   resizePc, copyInPc, copyOutPc, shellExited, tPanicked,
                   reads, resizes, tStopCloses, ptyCloses, restores, ioErr,
                   lateCalls, lateWrites>>

\* Terminal.Wait: Process.Wait returned; with an error Wait returns it,
\* otherwise (the shell has exited) Wait calls t.Stop().
WaitProcess(ok) ==
    /\ ~tPanicked
    /\ waitPc = "waiting"
    /\ IF ok
       THEN /\ shellExited
            /\ waitPc' = "stop"
            /\ stopPc' = [stopPc EXCEPT !["wait"] = "enter"]
       ELSE /\ waitPc' = "err"
            /\ UNCHANGED stopPc
    /\ UNCHANGED <<startPc, ptyFile, tStopOnce, tStopChan, restorePc,
                   resizePc, copyInPc, copyOutPc, shellExited, tPanicked,
                   reads, resizes, tStopCloses, ptyCloses, restores, ioErr,
                   lateCalls, lateWrites>>

\* The shell started by pty.Start exits.
ShellExit ==
    /\ ~tPanicked
    /\ ptyFile # "nil"
    /\ ~shellExited
    /\ shellExited' = TRUE
    /\ UNCHANGED <<startPc, ptyFile, tStopOnce, tStopChan, stopPc, restorePc,
                   resizePc, copyInPc, copyOutPc, waitPc, tPanicked, reads,
                   resizes, tStopCloses, ptyCloses, restores>>
    /\ UNCHANGED <<ioErr, lateCalls, lateWrites>>

\* ------------------------------------------- package chirp: the session

\* Chirp.Start: c.term.Start() returned an error, which Start returns wrapped.
ChirpStartFailed ==
    /\ cStartPc = "termstart"
    /\ startPc = "failed"
    /\ cStartPc' = "err"
    /\ UNCHANGED <<watcherPc, ctxDone, cancels, cStopOnce, cStopChan, cStopPc,
                   cStopLeft, playerClosed, cPanicked>>

\* Chirp.Start: c.term.Start() returned nil; the goroutine that waits for
\* ctx.Done() or c.stopChan is started and c.term.Wait() is called.
ChirpStartWatch ==
    /\ cStartPc = "termstart"
    /\ startPc = "started"
    /\ cStartPc' = "wait"
    /\ watcherPc' = "waiting"
    /\ UNCHANGED <<ctxDone, cancels, cStopOnce, cStopChan, cStopPc, cStopLeft,
                   playerClosed, cPanicked>>

\* Chirp.Start: c.term.Wait() returned; Start returns nil, or the error
\* wrapped.  Nothing else is done.
ChirpStartReturn ==
    /\ cStartPc = "wait"
    /\ waitPc \in {"nil", "err"}
    /\ cStartPc' = "returned"
    /\ UNCHANGED <<watcherPc, ctxDone, cancels, cStopOnce, cStopChan, cStopPc,
                   cStopLeft, playerClosed, cPanicked>>

\* The owner cancels the context passed to Chirp.Start: ctx.Done() is closed
\* by the first call, the later calls do nothing.
CtxCancel ==
    /\ cStartPc \in {"wait", "returned"}
    /\ cancels < MaxCancels
    /\ cancels' = cancels + 1
    /\ ctxDone' = TRUE
    /\ UNCHANGED <<cStartPc, watcherPc, cStopOnce, cStopChan, cStopPc,
                   cStopLeft, playerClosed, cPanicked>>

\* The mutant of WatcherCancel: on cancellation the goroutine just returns.
WatcherCancel_Return ==
    /\ watcherPc = "waiting"
    /\ ctxDone
    /\ watcherPc' = "exited"
    /\ UNCHANGED <<cStartPc, ctxDone, cancels, cStopOnce, cStopChan, cStopPc,
                   cStopLeft, playerClosed, cPanicked>>

\* The goroutine of Chirp.Start, case <-ctx.Done(): c.Stop() is called.
WatcherCancel ==
    /\ watcherPc = "waiting"
    /\ ctxDone
    /\ watcherPc' = "stop"
    /\ cStopPc' = [cStopPc EXCEPT !["watcher"] = "enter"]
    /\ UNCHANGED <<cStartPc, ctxDone, cancels, cStopOnce, cStopChan,
                   cStopLeft, playerClosed, cPanicked>>

\* The goroutine of Chirp.Start, case <-c.stopChan: return.
WatcherStopped ==
    /\ watcherPc = "waiting"
    /\ cStopChan = "closed"
    /\ watcherPc' = "exited"
    /\ UNCHANGED <<cStartPc, ctxDone, cancels, cStopOnce, cStopChan, cStopPc,
                   cStopLeft, playerClosed, cPanicked>>

\* The owner calls Chirp.Stop, once the terminal has been started.
OwnerStop ==
    /\ cStartPc \in {"wait", "returned"}
    /\ cStopPc["owner"] = "idle"
    /\ cStopPc' = [cStopPc EXCEPT !["owner"] = "enter"]
    /\ UNCHANGED <<cStartPc, watcherPc, ctxDone, cancels, cStopOnce,
                   cStopChan, cStopLeft, playerClosed, cPanicked>>

\* Chirp.Stop: c.stopOnce.Do(f).  The first caller runs f; a caller that
\* finds f running waits for it; a caller that finds it done returns.
ChirpStopEnter(c) ==
    /\ ~cPanicked
    /\ cStopPc[c] = "enter"
    /\ cStopOnce # "running"
    /\ IF cStopOnce = "fresh"
       THEN /\ cStopOnce' = "running"
            /\ cStopPc' = [cStopPc EXCEPT ![c] = "close"]
       ELSE /\ cStopPc' = [cStopPc EXCEPT ![c] = "leave"]
            /\ UNCHANGED cStopOnce
    /\ UNCHANGED <<cStartPc, watcherPc, ctxDone, cancels, cStopChan,
                   cStopLeft, playerClosed, cPanicked>>

\* Chirp.Stop, in f: close(c.stopChan), then the loop over c.queues begins.
ChirpStopClose(c) ==
    /\ ~cPanicked
    /\ cStopPc[c] = "close"
    /\ IF cStopChan = "closed"
       THEN /\ cPanicked' = TRUE
            /\ UNCHANGED <<cStopChan, cStopPc, cStopLeft>>
       ELSE /\ cStopChan' = "closed"
            /\ cStopPc' = [cStopPc EXCEPT ![c] = "queues"]
            /\ cStopLeft' = Queues
            /\ UNCHANGED cPanicked
    /\ UNCHANGED <<cStartPc, watcherPc, ctxDone, cancels, cStopOnce,
                   playerClosed>>

\* Chirp.Stop, in f: the loop over c.queues takes q (in any order, it
\* ranges over a map); q.Stop() is called by the caller of this operator.
ChirpStopQueue(c, q) ==
    /\ ~cPanicked
    /\ cStopPc[c] = "queues"
    /\ q \in cStopLeft
    /\ cStopLeft' = cStopLeft \ {q}
    /\ UNCHANGED <<cStartPc, watcherPc, ctxDone, cancels, cStopOnce,
                   cStopChan, cStopPc, playerClosed, cPanicked>>

\* Chirp.Stop, in f: the loop is over, c.term.Stop() is called.
ChirpStopTerm(c) ==
    /\ ~cPanicked
    /\ cStopPc[c] = "queues"
    /\ cStopLeft = {}
    /\ cStopPc' = [cStopPc EXCEPT ![c] = "term"]
    /\ UNCHANGED <<cStartPc, watcherPc, ctxDone, cancels, cStopOnce,
                   cStopChan, cStopLeft, playerClosed, cPanicked>>

\* Chirp.Stop, in f: c.term.Stop() has returned; c.player.Close(), whose
\* error would be logged; f is done.
ChirpStopPlayer(c) ==
    /\ ~cPanicked
    /\ cStopPc[c] = "term"
    /\ stopPc["external"] = "returned"
    /\ playerClosed' = TRUE
    /\ cStopOnce' = "done"
    /\ cStopPc' = [cStopPc EXCEPT ![c] = "leave"]
    /\ UNCHANGED <<cStartPc, watcherPc, ctxDone, cancels, cStopChan,
                   cStopLeft, cPanicked>>

\* Chirp.Stop returns to its caller; the goroutine of Chirp.Start ends.
ChirpStopReturn(c) ==
    /\ ~cPanicked
    /\ cStopPc[c] = "leave"
    /\ cStopPc' = [cStopPc EXCEPT ![c] = "returned"]
    /\ watcherPc' = IF c = "watcher" THEN "exited" ELSE watcherPc
    /\ UNCHANGED <<cStartPc, ctxDone, cancels, cStopOnce, cStopChan,
                   cStopLeft, playerClosed, cPanicked>>

\* -------------------------------------------- package main: the two loops

\* if printableCount > 100: the size of a burst of output.
BurstLimit == 100

\* isPrintableOrControl: return true, all characters are allowed.
isPrintableOrControl(b) == TRUE

\* IsSoundPlaying of the root package: time.Since(lastSoundTime) <
\* minSoundGap, under soundStateMutex; 25 ms as in the player package.
IsSoundPlaying ==
    ~lastSoundTime.zero /\ now - lastSoundTime.at < minSoundGap

\* A chunk of n bytes read from the PTY: byte k is "a", which the user may
\* have typed, the others are "x", which nobody types (k = 0: all are "x").
Chunk(n, k) == [i \in 1..n |-> IF i = k THEN "a" ELSE "x"]

\* The bytes of a chunk.
Range(data) == {data[i] : i \in 1..Len(data)}

\* The chunks explored: of one byte, of BurstLimit bytes and of one more,
\* the "a" nowhere or last.
OutputChunks ==
    UNION { { Chunk(n, k) : k \in {0, n} } :
                n \in {1, BurstLimit, BurstLimit + 1} }

\* The mutant of Bursty: no chunk counts as a burst.
Bursty_Never(printableCount) == FALSE

\* if printableCount > 100 { shouldChirp = false }.
Bursty(printableCount) == printableCount > BurstLimit

\* The output loop's scan of bufOut[:n]: every printable byte is counted
\* and looked up with IsRecentInput, in order; the first recent one clears
\* shouldChirp and breaks the loop, so the bytes after it are not counted.
\* last is the byte of the last lookup.
ScanOutput(data) ==
    LET hits == {i \in 1..Len(data) :
                    isPrintableOrControl(data[i]) /\ IsRecent(data[i])}
        stop == IF hits = {} THEN Len(data)
                ELSE CHOOSE i \in hits : \A j \in hits : i <= j
        seen == {i \in 1..stop : isPrintableOrControl(data[i])}
    IN  [printableCount |-> Cardinality(seen), shouldChirp |-> hits = {},
         last |-> data[stop]]

\* The output loop, one chunk: the scan, the burst test, and
\* go chirp.PlayChirp(outputChirp) if shouldChirp, printableCount > 0 and
\* no sound is within the gap.  Every lookup prunes the window.
OutputLoop(data) ==
    \E r \in {ScanOutput(data)}, gated \in {IsSoundPlaying} :
        LET shouldChirp == r.shouldChirp /\ ~Bursty(r.printableCount)
            go == shouldChirp /\ r.printableCount > 0 /\ ~gated
        IN  /\ chars' = ValidChars(chars)
            /\ lastCheck' = [valid |-> TRUE, char |-> r.last, at |-> now,
                             result |-> ~r.shouldChirp,
                             recorded |-> IF r.last \in TrackedBytes
                                          THEN tracked[r.last] ELSE -1]
            /\ launched' = IF go THEN launched + 1 ELSE launched
            /\ outChirps' = IF go THEN outChirps + 1 ELSE outChirps
            /\ outChunks' = outChunks + 1
            /\ lastOut' = [valid |-> TRUE, len |-> Len(data),
                           echo |-> \E c \in Range(data) : IsRecent(c),
                           gated |-> gated, chirp |-> go]
            /\ UNCHANGED <<timeout, tracks, tracked>>

\* The input loop, a chunk of the one byte c: chirp.TrackInput(c), then
\* go chirp.PlayChirp(keypressChirp).
InputLoop(c) ==
    /\ TrackInput(c)
    /\ launched' = launched + 1
    /\ UNCHANGED <<outChunks, outChirps, lastOut>>

\* A PlayChirp goroutine: if IsSoundPlaying() { return nil }, else
\* markSoundStart() (its two lock sections taken together).
PlayChirpGate ==
    /\ launched > 0
    /\ launched' = launched - 1
    /\ lastSoundTime' = IF IsSoundPlaying THEN lastSoundTime
                        ELSE [zero |-> FALSE, at |-> now]
    /\ UNCHANGED <<now, playPc, devStart, calls, outChunks, outChirps,
                   lastOut>>

\* ---------------------------------- package chirp: PlayChirp and its cache

\* A goroutine calls PlayChirp(opts).
PlayChirpCall(c, opts) ==
    /\ cachePc[c] = "idle"
    /\ cacheCalls < MaxCacheCalls
    /\ cachePc' = [cachePc EXCEPT ![c] = "gate"]
    /\ cacheReq' = [cacheReq EXCEPT ![c] = opts]
    /\ cacheCalls' = cacheCalls + 1
    /\ UNCHANGED <<chirpCache, readers, cacheRdr, cacheGot, cacheOut>>
    /\ UNCHANGED playerVars

\* PlayChirp: if IsSoundPlaying() { return nil }.
PlayChirpIsPlaying(c) ==
    /\ cachePc[c] = "gate"
    /\ IF IsSoundPlaying
       THEN /\ cachePc' = [cachePc EXCEPT ![c] = "idle"]
            /\ cacheOut' = [cacheOut EXCEPT ![c] =
                   [valid |-> TRUE, opts |-> cacheReq[c], hit |-> FALSE,
                    of |-> NoOptions, data |-> <<>>, device |-> FALSE]]
       ELSE /\ cachePc' = [cachePc EXCEPT ![c] = "mark"]
            /\ UNCHANGED cacheOut
    /\ UNCHANGED <<chirpCache, readers, cacheReq, cacheRdr, cacheGot,
                   cacheCalls>>
    /\ UNCHANGED playerVars

\* PlayChirp: markSoundStart().
PlayChirpMark(c) ==
    /\ cachePc[c] = "mark"
    /\ lastSoundTime' = [zero |-> FALSE, at |-> now]
    /\ cachePc' = [cachePc EXCEPT ![c] = "lookup"]
    /\ UNCHANGED <<chirpCache, readers, cacheReq, cacheRdr, cacheGot,
                   cacheOut, cacheCalls>>
    /\ UNCHANGED <<now, playPc, devStart, calls>>

\* getCachedChirp: chirpCache.Load(key); on a hit the stored reader itself is
\* rewound with Seek(0, io.SeekStart) and returned.
getCachedChirp(c) ==
    /\ cachePc[c] = "lookup"
    /\ LET key == getCacheKey(cacheReq[c])
           rdr == chirpCache[key]
       IN  IF rdr # 0
           THEN /\ readers' = [readers EXCEPT ![rdr].pos = 0]
                /\ cacheRdr' = [cacheRdr EXCEPT ![c] = rdr]
                /\ cachePc' = [cachePc EXCEPT ![c] = "read"]
           ELSE /\ cachePc' = [cachePc EXCEPT ![c] = "store"]
                /\ UNCHANGED <<readers, cacheRdr>>
    /\ UNCHANGED <<chirpCache, cacheReq, cacheGot, cacheOut, cacheCalls>>
    /\ UNCHANGED playerVars

\* The id of the next *bytes.Reader cacheChirp makes.
NewReader == 1 + Cardinality({r \in DOMAIN readers : readers[r].of # NoOptions})

\* PlayChirp on a miss: io.ReadAll(GenerateChirp(opts)), cacheChirp stores a
\* new reader over the bytes under the key, and PlaySound is given another
\* new reader over them, which it alone reads.
cacheChirp(c) ==
    /\ cachePc[c] = "store"
    /\ chirpCache' = [chirpCache EXCEPT ![getCacheKey(cacheReq[c])] = NewReader]
    /\ readers' = [readers EXCEPT ![NewReader] = [of |-> cacheReq[c], pos |-> 0]]
    /\ cacheOut' = [cacheOut EXCEPT ![c] =
           [valid |-> TRUE, opts |-> cacheReq[c], hit |-> FALSE,
            of |-> cacheReq[c], data |-> CompleteBuffer(cacheReq[c]),
            device |-> RenderedBlocks(cacheReq[c]) > 0]]
    /\ cachePc' = [cachePc EXCEPT ![c] = "idle"]
    /\ UNCHANGED <<cacheReq, cacheRdr, cacheGot, cacheCalls>>
    /\ UNCHANGED playerVars

\* PlaySound on a hit, io.ReadAll(data): one Read of the cached reader, which
\* returns the block at the reader's position and advances the position.
\* The reader is the one object stored in the map: no lock is held.
PlaySoundRead(c) ==
    /\ cachePc[c] = "read"
    /\ readers[cacheRdr[c]].pos < RenderedBlocks(readers[cacheRdr[c]].of)
    /\ cacheGot' = [cacheGot EXCEPT ![c] =
                      Append(@, readers[cacheRdr[c]].pos + 1)]
    /\ readers' = [readers EXCEPT ![cacheRdr[c]].pos = @ + 1]
    /\ UNCHANGED <<chirpCache, cachePc, cacheReq, cacheRdr, cacheOut,
                   cacheCalls>>
    /\ UNCHANGED playerVars

\* PlaySound on a hit: a Read finds the reader at its end, io.ReadAll returns
\* what it has read; nil is returned for no bytes, else they are handed to
\* ctx.NewPlayer and played.
PlaySoundPlay(c) ==
    /\ cachePc[c] = "read"
    /\ readers[cacheRdr[c]].pos >= RenderedBlocks(readers[cacheRdr[c]].of)
    /\ cacheOut' = [cacheOut EXCEPT ![c] =
           [valid |-> TRUE, opts |-> cacheReq[c], hit |-> TRUE,
            of |-> readers[cacheRdr[c]].of, data |-> cacheGot[c],
            device |-> cacheGot[c] # <<>>]]
    /\ cachePc' = [cachePc EXCEPT ![c] = "idle"]
    /\ cacheRdr' = [cacheRdr EXCEPT ![c] = 0]
    /\ cacheGot' = [cacheGot EXCEPT ![c] = <<>>]
    /\ UNCHANGED <<chirpCache, readers, cacheReq, cacheCalls>>
    /\ UNCHANGED playerVars

\* ------------------------------- package player: generateChirp's envelope

\* generateChirp: attack := 0.1, decay := 0.2, sustain := 0.7, release := 0.3,
\* in tenths.
EnvAttack == 1

EnvDecay == 2

EnvSustain == 7

EnvRelease == 3

\* The envelope is a fraction; it is kept as a whole number of units of
\* 1 / EnvScale(numSamples), the common denominator of the four branches for
\* progress = i / numSamples.
EnvScale(numSamples) == 10 * EnvAttack * EnvDecay * EnvRelease * numSamples

\* calculateEnvelope, the branch taken for progress = i / numSamples:
\* progress < attack, else progress < attack+decay, else
\* progress > 1.0-release, else sustain.  In float64 0.1 + 0.2 is
\* 0.30000000000000004, above the float64 of 3/10, so progress = 3/10 still
\* takes the decay branch; 1.0 - 0.3 is the float64 of 7/10.
EnvelopePhase(i, numSamples, attack, decay, sustain, release) ==
    IF 10 * i < attack * numSamples THEN "attack"
    ELSE IF 10 * i <= (attack + decay) * numSamples THEN "decay"
    ELSE IF 10 * i > (10 - release) * numSamples THEN "release"
    ELSE "sustain"

\* The mutant of calculateEnvelope: the decay ramp rises from the peak.
calculateEnvelope_DecayRises(i, numSamples, attack, decay, sustain, release) ==
    LET phase == EnvelopePhase(i, numSamples, attack, decay, sustain, release)
    IN  IF phase = "attack" THEN 10 * i * 10 * decay * release
        ELSE IF phase = "decay"
        THEN (10 * decay * numSamples
                 + (10 - sustain) * (10 * i - attack * numSamples))
             * attack * release
        ELSE IF phase = "release"
        THEN sustain * (numSamples - i) * 10 * attack * decay
        ELSE sustain * attack * decay * release * numSamples

\* The mutant of calculateEnvelope: the release ramp starts from the peak.
calculateEnvelope_ReleaseFromPeak(i, numSamples, attack, decay, sustain, release) ==
    LET phase == EnvelopePhase(i, numSamples, attack, decay, sustain, release)
    IN  IF phase = "attack" THEN 10 * i * 10 * decay * release
        ELSE IF phase = "decay"
        THEN (10 * decay * numSamples
                 - (10 - sustain) * (10 * i - attack * numSamples))
             * attack * release
        ELSE IF phase = "release"
        THEN 10 * (numSamples - i) * 10 * attack * decay
        ELSE sustain * attack * decay * release * numSamples

\* calculateEnvelope(progress, attack, decay, sustain, release) for
\* progress = i / numSamples, times EnvScale(numSamples):
\*   attack:  progress / attack
\*   decay:   1 - (1 - sustain) * (progress - attack) / decay
\*   release: sustain * (1 - (progress - (1 - release)) / release)
\*   else:    sustain
\* The arithmetic is exact here; float64 differs by rounding only.
calculateEnvelope(i, numSamples, attack, decay, sustain, release) ==
    LET phase == EnvelopePhase(i, numSamples, attack, decay, sustain, release)
    IN  IF phase = "attack" THEN 10 * i * 10 * decay * release
        ELSE IF phase = "decay"
        THEN (10 * decay * numSamples
                 - (10 - sustain) * (10 * i - attack * numSamples))
             * attack * release
        ELSE IF phase = "release"
        THEN sustain * (numSamples - i) * 10 * attack * decay
        ELSE sustain * attack * decay * release * numSamples

\* generateChirp: amplitude := sample.Volume * 32767.0, and
\* |sampleValue| = amplitude * envelope * |math.Sin(phase)| is at most
\* amplitude * envelope: that bound, in units of
\* 32767 / FullScale(numSamples), so that 32767 is FullScale(numSamples).
SampleMagnitude(volume, envelope) == volume * envelope

FullScale(numSamples) == 100 * EnvScale(numSamples)

\* The durations (ms) and volumes (percent) of the samples rendered.
EnvelopeDurations == {1, 5, 15}

EnvelopeVolumes == {1, 30, 100}

\* generateChirp is called for a sample that has a volume and a duration.
GenerateChirpCall(d, v) ==
    /\ envI = -1
    /\ envN = 0
    /\ envN' = NumSamples(d)
    /\ envVolume' = v
    /\ UNCHANGED <<envI, envPhase, envValue, envPrev>>

\* generateChirp, one turn of for i := 0; i < numSamples; i++.
GenerateChirpLoop ==
    /\ envN > 0
    /\ envI + 1 < envN
    /\ envI' = envI + 1
    /\ envPhase' = EnvelopePhase(envI + 1, envN, EnvAttack, EnvDecay,
                                 EnvSustain, EnvRelease)
    /\ envValue' = calculateEnvelope(envI + 1, envN, EnvAttack, EnvDecay,
                                     EnvSustain, EnvRelease)
    /\ envPrev' = envValue
    /\ UNCHANGED <<envN, envVolume>>

\* --------------------------------- package terminal: the data of the loops

\* The chunks a Read returns: a letter, which no trigger matches, and Enter
\* followed by a letter; the second Enter offered to the trigger while its
\* mailbox is full is dropped.
WireChunks == { <<"x">>, <<"\n", "x">> }

\* copyInput: n, err := t.stdin.Read(buf) with n > 0; data := buf[:n].
StdinRead(data) ==
    /\ stdinRead' = stdinRead \o data
    /\ inData' = data
    /\ UNCHANGED <<ptyWritten, ptyRead, stdoutWritten, outData>>

\* The mutant of PtyWrite: the last n bytes of data are written.
PtyWrite_Tail(n) ==
    /\ ptyWritten' = ptyWritten \o SubSeq(inData, Len(inData) - n + 1, Len(inData))
    /\ UNCHANGED <<stdinRead, ptyRead, stdoutWritten, inData, outData>>

\* copyInput: t.ptyFile.Write(data) writes the first n bytes of data: all of
\* them when it returns no error, fewer when it returns one.
PtyWrite(n) ==
    /\ ptyWritten' = ptyWritten \o SubSeq(inData, 1, n)
    /\ UNCHANGED <<stdinRead, ptyRead, stdoutWritten, inData, outData>>

\* copyOutput: n, err := t.ptyFile.Read(buf) with n > 0; data := buf[:n].
PtyRead(data) ==
    /\ ptyRead' = ptyRead \o data
    /\ outData' = data
    /\ UNCHANGED <<stdinRead, ptyWritten, stdoutWritten, inData>>

\* copyOutput: t.stdout.Write(data) writes the first n bytes of data.
StdoutWrite(n) ==
    /\ stdoutWritten' = stdoutWritten \o SubSeq(outData, 1, n)
    /\ UNCHANGED <<stdinRead, ptyWritten, ptyRead, inData, outData>>

\* ------------------------------ package main: getChirpOptionsForInput

\* escapeSeqMap, for the two bytes after ESC: "[A" is "up" (likewise "[B",
\* "[C", "[D").
EscapeSeqName(b1, b2) == IF b1 = "[" /\ b2 = "A" THEN "up" ELSE "none"

\* controlKeyMap: 0x1b is "esc" (likewise backspace, tab, enter, ...).
ControlKeyName(b) == IF b = "ESC" THEN "esc" ELSE "none"

\* The Delete test of getChirpOptionsForInput, entered when buf[i] is ESC and
\* i+2 < len(buf): *i+3 < len(buf) && buf[*i+1] == '[' && buf[*i+2] == '3'
\* && buf[*i+3] == '~', evaluated left to right; the indexes it reads.
DeleteReads(buf, i) ==
    IF i + 3 >= InputBufLen THEN {}
    ELSE IF buf[i + 1] # "[" THEN {i + 1}
    ELSE IF buf[i + 2] # "3" THEN {i + 1, i + 2}
    ELSE {i + 1, i + 2, i + 3}

IsDelete(buf, i) ==
    /\ i + 3 < InputBufLen
    /\ buf[i + 1] = "["
    /\ buf[i + 2] = "3"
    /\ buf[i + 3] = "~"

\* The arrow-key test, with *i as the Delete branch left it (cur):
\* buf[*i+1] == '[' and then escapeSeqMap[string([]byte{buf[*i+1],
\* buf[*i+2]})]; an index of len(buf) or more panics.
ArrowKey(overrides, buf, cur, sofar) ==
    IF cur + 1 >= InputBufLen
    THEN [i |-> cur, reads |-> sofar, panic |-> TRUE, name |-> "none"]
    ELSE IF buf[cur + 1] # "["
    THEN [i |-> cur, reads |-> sofar \cup {cur + 1}, panic |-> FALSE,
          name |-> "none"]
    ELSE IF cur + 2 >= InputBufLen
    THEN [i |-> cur, reads |-> sofar \cup {cur + 1}, panic |-> TRUE,
          name |-> "none"]
    ELSE IF EscapeSeqName(buf[cur + 1], buf[cur + 2]) = "none"
    THEN [i |-> cur, reads |-> sofar \cup {cur + 1, cur + 2}, panic |-> FALSE,
          name |-> "none"]
    ELSE [i |-> cur + 2, reads |-> sofar \cup {cur + 1, cur + 2},
          panic |-> FALSE,
          name |-> IF EscapeSeqName(buf[cur + 1], buf[cur + 2]) \in overrides
                   THEN EscapeSeqName(buf[cur + 1], buf[cur + 2])
                   ELSE "none"]

\* The control-key test and the fallback, with *i as the tests before left
\* it: controlKeyMap[buf[*i]], then the override of that name or the default
\* input sound.
ControlKey(overrides, buf, r) ==
    IF r.panic \/ r.name # "none" THEN r
    ELSE [i |-> r.i, reads |-> r.reads \cup {r.i}, panic |-> FALSE,
          name |-> IF ControlKeyName(buf[r.i]) \in overrides
                   THEN ControlKeyName(buf[r.i]) ELSE "default"]

\* getChirpOptionsForInput(cfg, buf, &i): the value it leaves in *i, the
\* indexes of buf it reads, whether it panics, the sound it chooses.  buf is
\* the whole buffer of the goroutine, so len(buf) is its capacity.
getChirpOptionsForInput(overrides, buf, i) ==
    IF ~(buf[i] = "ESC" /\ i + 2 < InputBufLen)
    THEN ControlKey(overrides, buf,
             [i |-> i, reads |-> {i}, panic |-> FALSE, name |-> "none"])
    ELSE IF IsDelete(buf, i) /\ "delete" \in overrides
    THEN [i |-> i + 3, reads |-> {i} \cup DeleteReads(buf, i),
          panic |-> FALSE, name |-> "delete"]
    ELSE ControlKey(overrides, buf,
             ArrowKey(overrides, buf, IF IsDelete(buf, i) THEN i + 3 ELSE i,
                      {i} \cup DeleteReads(buf, i)))

\* The input goroutine calls getChirpOptionsForInput(cfg, buf, &i).
InputKeyCall ==
    /\ ~keyOut.done
    /\ keyOut' = [done |-> TRUE]
                   @@ getChirpOptionsForInput(keyOverrides, keyBuf, keyI)
    /\ UNCHANGED <<keyBuf, keyN, keyI, keyOverrides>>

\* ------------------------------------- the queue with an abstract player

\* A caller of Add offers the next item (items are numbered by offer).
Add == \E q \in Queues :
    /\ offered[q] < MaxOffers
    /\ QueueAdd(q, offered[q] + 1)
    /\ UNCHANGED <<playerVars, trackerVars, engineVars, termVars, libVars,
                   relayVars, chirpVars, mainVars, sizeVars, cacheVars,
                   envVars, wireVars, keyVars>>

Stop == \E q \in Queues :
    /\ stops[q] < MaxStops
    /\ QueueStop(q)
    /\ UNCHANGED <<playerVars, trackerVars, engineVars, termVars, libVars,
                   relayVars, chirpVars, mainVars, sizeVars, cacheVars,
                   envVars, wireVars, keyVars>>

RunSelectStop == \E q \in Queues : RunStop(q)
    /\ UNCHANGED <<playerVars, trackerVars, engineVars, termVars, libVars,
                   relayVars, chirpVars, mainVars, sizeVars, cacheVars,
                   envVars, wireVars, keyVars>>

RunSelectItem == \E q \in Queues : RunItem(q)
    /\ UNCHANGED <<playerVars, trackerVars, engineVars, termVars, libVars,
                   relayVars, chirpVars, mainVars, sizeVars, cacheVars,
                   envVars, wireVars, keyVars>>

\* Any player.Player: Play blocks for as long as it likes and returns nil.
PlayOk == \E q \in Queues : RunPlayReturned(q, FALSE)
    /\ UNCHANGED <<playerVars, trackerVars, engineVars, termVars, libVars,
                   relayVars, chirpVars, mainVars, sizeVars, cacheVars,
                   envVars, wireVars, keyVars>>

\* Any player.Player: Play returns an error.
PlayErr == \E q \in Queues : RunPlayReturned(q, TRUE)
    /\ UNCHANGED <<playerVars, trackerVars, engineVars, termVars, libVars,
                   relayVars, chirpVars, mainVars, sizeVars, cacheVars,
                   envVars, wireVars, keyVars>>

Init ==
    QueueInit(SingleQueueConfigs) /\ PlayerInit /\ TrackerInit({DefaultEchoTimeout})
    /\ EngineInit /\ TermInit /\ LibInit /\ RelayInit /\ ChirpInit /\ MainInit
    /\ SizeInit /\ CacheInit /\ EnvInit /\ WireInit /\ KeyIdle

Next ==
    \/ Add
    \/ Stop
    \/ RunSelectStop
    \/ RunSelectItem
    \/ PlayOk
    \/ PlayErr

Spec == Init /\ [][Next]_vars

\* ------------------------------ the queues' consumers sharing one OtoPlayer

RECURSIVE SumOver(_, _)
SumOver(f, S) ==
    IF S = {} THEN 0
    ELSE LET x == CHOOSE y \in S : TRUE IN f[x] + SumOver(f, S \ {x})

\* The number of Add calls made so far, on all queues.
TotalOffered == SumOver(offered, Queues)

GateAdd == \E q \in Queues :
    /\ TotalOffered < MaxPlays
    /\ QueueAdd(q, offered[q] + 1)
    /\ UNCHANGED <<playerVars, trackerVars, engineVars, termVars, libVars,
                   relayVars, chirpVars, mainVars, sizeVars, cacheVars,
                   envVars, wireVars, keyVars>>

\* Queue.run receives an item and enters OtoPlayer.Play.
GateDequeue == \E q \in Queues :
    /\ RunItem(q)
    /\ playPc' = [playPc EXCEPT ![q] = "gate"]
    /\ UNCHANGED <<now, lastSoundTime, devStart, calls, trackerVars,
                   engineVars, termVars, libVars, relayVars, chirpVars, mainVars,
                   sizeVars, cacheVars, envVars, wireVars, keyVars>>

GateCheck == \E q \in Queues : PlayGate(q)
    /\ UNCHANGED <<trackerVars, engineVars, termVars, libVars, relayVars,
                   chirpVars, mainVars, sizeVars, cacheVars, envVars,
                   wireVars, keyVars>>

GateMark == \E q \in Queues : PlayMark(q)
    /\ UNCHANGED <<trackerVars, engineVars, termVars, libVars, relayVars,
                   chirpVars, mainVars, sizeVars, cacheVars, envVars,
                   wireVars, keyVars>>

GateDeviceDone == \E q \in Queues : PlayDeviceDone(q)
    /\ UNCHANGED <<trackerVars, engineVars, termVars, libVars, relayVars,
                   chirpVars, mainVars, sizeVars, cacheVars, envVars,
                   wireVars, keyVars>>

GateDeviceErr == \E q \in Queues : PlayDeviceErr(q)
    /\ UNCHANGED <<trackerVars, engineVars, termVars, libVars, relayVars,
                   chirpVars, mainVars, sizeVars, cacheVars, envVars,
                   wireVars, keyVars>>

GateTick == ClockTick
    /\ UNCHANGED <<queueVars, trackerVars, engineVars, termVars, libVars,
                   relayVars, chirpVars, mainVars, sizeVars, cacheVars,
                   envVars, wireVars, keyVars>>

InitGate == QueueInit(GateConfigs) /\ PlayerInit /\ TrackerInit({DefaultEchoTimeout})
    /\ EngineInit /\ TermInit /\ LibInit /\ RelayInit /\ ChirpInit /\ MainInit
    /\ SizeInit /\ CacheInit /\ EnvInit /\ WireInit /\ KeyIdle

NextGate ==
    \/ GateAdd
    \/ GateDequeue
    \/ GateCheck
    \/ GateMark
    \/ GateDeviceDone
    \/ GateDeviceErr
    \/ GateTick

SpecGate == InitGate /\ [][NextGate]_vars

\* ------------------------------------------------- the echo tracker alone

\* No queue is configured.
NoQueues == [q \in {} |-> 0]

TrackerTrack == \E c \in TrackedBytes :
    /\ tracks < MaxTracks
    /\ TrackInput(c)
    /\ UNCHANGED <<queueVars, playerVars, engineVars, termVars, libVars,
                   relayVars, chirpVars, mainVars, sizeVars, cacheVars,
                   envVars, wireVars, keyVars>>

TrackerCheck == \E c \in TrackedBytes :
    /\ IsRecentInput(c)
    /\ UNCHANGED <<queueVars, playerVars, engineVars, termVars, libVars,
                   relayVars, chirpVars, mainVars, sizeVars, cacheVars,
                   envVars, wireVars, keyVars>>

TrackerTick == ClockTick
    /\ UNCHANGED <<queueVars, trackerVars, engineVars, termVars, libVars,
                   relayVars, chirpVars, mainVars, sizeVars, cacheVars,
                   envVars, wireVars, keyVars>>

InitTracker ==
    QueueInit({NoQueues}) /\ PlayerInit /\ TrackerInit(EchoTimeouts)
    /\ EngineInit /\ TermInit /\ LibInit /\ RelayInit /\ ChirpInit /\ MainInit
    /\ SizeInit /\ CacheInit /\ EnvInit /\ WireInit /\ KeyIdle

NextTracker ==
    \/ TrackerTrack
    \/ TrackerCheck
    \/ TrackerTick

SpecTracker == InitTracker /\ [][NextTracker]_vars

\* --------------------------------------- the engine, its queues, the player

\* The configurations the engine is explored with: one trigger on "\n" of
\* max_length 1 with the 100 ms sample, and DefaultConfig.
EngineConfigs ==
    { [q \in {"enter"} |-> QueueConfig("enter", {<<"\n">>}, SampleBeep, 1)],
      DefaultConfig }

EngineInput == \E b \in EngineBytes :
    /\ Len(inLog) + outCount < MaxBytes
    /\ now <= MaxArrival
    /\ HandleInputByte(b)
    /\ UNCHANGED <<queueVars, playerVars, trackerVars, termVars, libVars,
                   relayVars, chirpVars, mainVars, sizeVars, cacheVars,
                   envVars, wireVars, keyVars>>

EngineInputAdd == \E q \in Queues :
    /\ HandleInputAdd(q)
    /\ UNCHANGED <<playerVars, trackerVars, termVars, libVars, relayVars,
                   chirpVars, mainVars, sizeVars, cacheVars, envVars,
                   wireVars, keyVars>>

EngineOutput == \E b \in EngineBytes :
    /\ Len(inLog) + outCount < MaxBytes
    /\ now <= MaxArrival
    /\ HandleOutputByte(b)
    /\ UNCHANGED <<queueVars, playerVars, trackerVars, termVars, libVars,
                   relayVars, chirpVars, mainVars, sizeVars, cacheVars,
                   envVars, wireVars, keyVars>>

EngineOutputAdd == \E q \in Queues :
    /\ HandleOutputAdd(q)
    /\ UNCHANGED <<playerVars, trackerVars, termVars, libVars, relayVars,
                   chirpVars, mainVars, sizeVars, cacheVars, envVars,
                   wireVars, keyVars>>

EngineTick ==
    ClockTickTo(MaxArrival)
    /\ UNCHANGED <<queueVars, trackerVars, engineVars, termVars, libVars,
                   relayVars, chirpVars, mainVars, sizeVars, cacheVars,
                   envVars, wireVars, keyVars>>

EngineDeviceWait == DeviceWait
    /\ UNCHANGED <<queueVars, trackerVars, engineVars, termVars, libVars,
                   relayVars, chirpVars, mainVars, sizeVars, cacheVars,
                   envVars, wireVars, keyVars>>

InitEngine ==
    QueueInit(EngineConfigs) /\ PlayerInit /\ TrackerInit({DefaultEchoTimeout})
    /\ EngineInit /\ TermInit /\ LibInit /\ RelayInit /\ ChirpInit /\ MainInit
    /\ SizeInit /\ CacheInit /\ EnvInit /\ WireInit /\ KeyIdle

NextEngine ==
    \/ EngineInput
    \/ EngineInputAdd
    \/ EngineOutput
    \/ EngineOutputAdd
    \/ GateDequeue
    \/ GateCheck
    \/ GateMark
    \/ GateDeviceDone
    \/ GateDeviceErr
    \/ EngineTick
    \/ EngineDeviceWait

SpecEngine == InitEngine /\ [][NextEngine]_vars

\* --------------------------------------------- the engine and the patterns

\* The chunk relayed in each direction: "error:" followed by Enter.
PatternChunk == <<"e", "r", "r", "o", "r", ":", "\n">>

\* Chirp.handleInput is given PatternChunk: its outer loop takes the next
\* byte.
PatternInput ==
    /\ Len(inLog) < Len(PatternChunk)
    /\ HandleInputByte(PatternChunk[Len(inLog) + 1])
    /\ UNCHANGED <<queueVars, playerVars, trackerVars, termVars, libVars,
                   relayVars, chirpVars, mainVars, sizeVars, cacheVars,
                   envVars, wireVars, keyVars>>

\* Chirp.handleOutput is given PatternChunk: its outer loop takes the next
\* byte.
PatternOutput ==
    /\ outCount < Len(PatternChunk)
    /\ HandleOutputByte(PatternChunk[outCount + 1])
    /\ UNCHANGED <<queueVars, playerVars, trackerVars, termVars, libVars,
                   relayVars, chirpVars, mainVars, sizeVars, cacheVars,
                   envVars, wireVars, keyVars>>

InitPattern ==
    QueueInit({PatternConfig}) /\ PlayerInit /\ TrackerInit({DefaultEchoTimeout})
    /\ EngineInit /\ TermInit /\ LibInit /\ RelayInit /\ ChirpInit /\ MainInit
    /\ SizeInit /\ CacheInit /\ EnvInit /\ WireInit /\ KeyIdle

NextPattern ==
    \/ PatternInput
    \/ EngineInputAdd
    \/ PatternOutput
    \/ EngineOutputAdd
    \/ RunSelectItem
    \/ PlayOk
    \/ PlayErr

SpecPattern == InitPattern /\ [][NextPattern]_vars

\* ------------------------------------------------- the input handler alone

\* The bytes handleInput is given: one that both triggers of OverlapConfig
\* match, one for each alone, one for neither.
InputBytes == {"\n", "\r", "$", "x"}

\* Chirp.handleInput, outer loop: the next byte of the data.
InputByte == \E b \in InputBytes :
    /\ Len(inLog) < MaxBytes
    /\ HandleInputByte(b)
    /\ UNCHANGED <<queueVars, playerVars, trackerVars, termVars, libVars,
                   relayVars, chirpVars, mainVars, sizeVars, cacheVars,
                   envVars, wireVars, keyVars>>

InitInput ==
    QueueInit({OverlapConfig}) /\ PlayerInit /\ TrackerInit({DefaultEchoTimeout})
    /\ EngineInit /\ TermInit /\ LibInit /\ RelayInit /\ ChirpInit /\ MainInit
    /\ SizeInit /\ CacheInit /\ EnvInit /\ WireInit /\ KeyIdle

NextInput ==
    \/ InputByte
    \/ EngineInputAdd
    \/ RunSelectItem
    \/ PlayOk
    \/ PlayErr

SpecInput == InitInput /\ [][NextInput]_vars

\* ----------------------------------------------------- the loops of main

\* The user types "a".
MainInput ==
    /\ tracks + outChunks < MaxMainChunks
    /\ InputLoop("a")
    /\ UNCHANGED <<queueVars, playerVars, engineVars, termVars, libVars,
                   relayVars, chirpVars, sizeVars, cacheVars, envVars,
                   wireVars, keyVars>>

MainOutput == \E data \in OutputChunks :
    /\ tracks + outChunks < MaxMainChunks
    /\ OutputLoop(data)
    /\ UNCHANGED <<queueVars, playerVars, engineVars, termVars, libVars,
                   relayVars, chirpVars, sizeVars, cacheVars, envVars,
                   wireVars, keyVars>>

MainPlayChirp ==
    /\ PlayChirpGate
    /\ UNCHANGED <<queueVars, trackerVars, engineVars, termVars, libVars,
                   relayVars, chirpVars, sizeVars, cacheVars, envVars,
                   wireVars, keyVars>>

MainTick == ClockTick
    /\ UNCHANGED <<queueVars, trackerVars, engineVars, termVars, libVars,
                   relayVars, chirpVars, mainVars, sizeVars, cacheVars,
                   envVars, wireVars, keyVars>>

InitMain ==
    QueueInit({NoQueues}) /\ PlayerInit /\ TrackerInit({DefaultEchoTimeout})
    /\ EngineInit /\ TermInit /\ LibInit /\ RelayInit /\ ChirpInit /\ MainInit
    /\ SizeInit /\ CacheInit /\ EnvInit /\ WireInit /\ KeyIdle

NextMain ==
    \/ MainInput
    \/ MainOutput
    \/ MainPlayChirp
    \/ MainTick

SpecMain == InitMain /\ [][NextMain]_vars

\* ------------------------------------------------------ the terminal alone

TermStartPty == \E ok \in BOOLEAN :
    StartPty(ok)
    /\ UNCHANGED <<queueVars, playerVars, trackerVars, engineVars, libVars,
                   relayVars, chirpVars, mainVars, sizeVars, cacheVars,
                   envVars, wireVars, keyVars>>

TermStartMakeRaw == \E ok \in BOOLEAN :
    StartMakeRaw(ok)
    /\ UNCHANGED <<queueVars, playerVars, trackerVars, engineVars, libVars,
                   relayVars, chirpVars, mainVars, sizeVars, cacheVars,
                   envVars, wireVars, keyVars>>

TermExternalStop ==
    ExternalStop
    /\ UNCHANGED <<queueVars, playerVars, trackerVars, engineVars, libVars,
                   relayVars, chirpVars, mainVars, sizeVars, cacheVars,
                   envVars, wireVars, keyVars>>

TermStopEnter == \E c \in StopCallers :
    StopEnter(c)
    /\ UNCHANGED <<queueVars, playerVars, trackerVars, engineVars, libVars,
                   relayVars, chirpVars, mainVars, sizeVars, cacheVars,
                   envVars, wireVars, keyVars>>

TermStopClose == \E c \in StopCallers :
    StopClose(c)
    /\ UNCHANGED <<queueVars, playerVars, trackerVars, engineVars, libVars,
                   relayVars, chirpVars, mainVars, sizeVars, cacheVars,
                   envVars, wireVars, keyVars>>

TermStopPtyClose == \E c \in StopCallers :
    StopPtyClose(c)
    /\ UNCHANGED <<queueVars, playerVars, trackerVars, engineVars, libVars,
                   relayVars, chirpVars, mainVars, sizeVars, cacheVars,
                   envVars, wireVars, keyVars>>

TermStopReturn == \E c \in StopCallers :
    StopReturn(c)
    /\ UNCHANGED <<queueVars, playerVars, trackerVars, engineVars, libVars,
                   relayVars, chirpVars, mainVars, sizeVars, cacheVars,
                   envVars, wireVars, keyVars>>

TermRestore ==
    RestoreRun
    /\ UNCHANGED <<queueVars, playerVars, trackerVars, engineVars, libVars,
                   relayVars, chirpVars, mainVars, sizeVars, cacheVars,
                   envVars, wireVars, keyVars>>

TermResizeSignal ==
    ResizeSignal
    /\ UNCHANGED <<queueVars, playerVars, trackerVars, engineVars, libVars,
                   relayVars, chirpVars, mainVars, sizeVars, cacheVars,
                   envVars, wireVars, keyVars>>

TermResizeStop ==
    ResizeStop
    /\ UNCHANGED <<queueVars, playerVars, trackerVars, engineVars, libVars,
                   relayVars, chirpVars, mainVars, sizeVars, cacheVars,
                   envVars, wireVars, keyVars>>

TermCopyInSelect ==
    CopyInSelect
    /\ UNCHANGED <<queueVars, playerVars, trackerVars, engineVars, libVars,
                   relayVars, chirpVars, mainVars, sizeVars, cacheVars,
                   envVars, wireVars, keyVars>>

TermCopyInRead == \E ok \in BOOLEAN :
    CopyInRead(ok)
    /\ UNCHANGED <<queueVars, playerVars, trackerVars, engineVars, libVars,
                   relayVars, chirpVars, mainVars, sizeVars, cacheVars,
                   envVars, wireVars, keyVars>>

TermCopyInCallHandler ==
    CopyInCallHandler
    /\ UNCHANGED <<queueVars, playerVars, trackerVars, engineVars, libVars,
                   relayVars, chirpVars, mainVars, sizeVars, cacheVars,
                   envVars, wireVars, keyVars>>

TermCopyInHandlerReturned ==
    CopyInHandlerReturned
    /\ UNCHANGED <<queueVars, playerVars, trackerVars, engineVars, libVars,
                   relayVars, chirpVars, mainVars, sizeVars, cacheVars,
                   envVars, wireVars, keyVars>>

TermCopyInWrite == \E ok \in BOOLEAN :
    CopyInWrite(ok)
    /\ UNCHANGED <<queueVars, playerVars, trackerVars, engineVars, libVars,
                   relayVars, chirpVars, mainVars, sizeVars, cacheVars,
                   envVars, wireVars, keyVars>>

TermCopyOutSelect ==
    CopyOutSelect
    /\ UNCHANGED <<queueVars, playerVars, trackerVars, engineVars, libVars,
                   relayVars, chirpVars, mainVars, sizeVars, cacheVars,
                   envVars, wireVars, keyVars>>

TermCopyOutRead == \E ok \in BOOLEAN :
    CopyOutRead(ok)
    /\ UNCHANGED <<queueVars, playerVars, trackerVars, engineVars, libVars,
                   relayVars, chirpVars, mainVars, sizeVars, cacheVars,
                   envVars, wireVars, keyVars>>

TermCopyOutCallHandler ==
    CopyOutCallHandler
    /\ UNCHANGED <<queueVars, playerVars, trackerVars, engineVars, libVars,
                   relayVars, chirpVars, mainVars, sizeVars, cacheVars,
                   envVars, wireVars, keyVars>>

TermCopyOutHandlerReturned ==
    CopyOutHandlerReturned
    /\ UNCHANGED <<queueVars, playerVars, trackerVars, engineVars, libVars,
                   relayVars, chirpVars, mainVars, sizeVars, cacheVars,
                   envVars, wireVars, keyVars>>

TermCopyOutWrite == \E ok \in BOOLEAN :
    CopyOutWrite(ok)
    /\ UNCHANGED <<queueVars, playerVars, trackerVars, engineVars, libVars,
                   relayVars, chirpVars, mainVars, sizeVars, cacheVars,
                   envVars, wireVars, keyVars>>

TermWaitCall ==
    WaitCall
    /\ UNCHANGED <<queueVars, playerVars, trackerVars, engineVars, libVars,
                   relayVars, chirpVars, mainVars, sizeVars, cacheVars,
                   envVars, wireVars, keyVars>>

TermWaitProcess == \E ok \in BOOLEAN :
    WaitProcess(ok)
    /\ UNCHANGED <<queueVars, playerVars, trackerVars, engineVars, libVars,
                   relayVars, chirpVars, mainVars, sizeVars, cacheVars,
                   envVars, wireVars, keyVars>>

TermShellExit ==
    ShellExit
    /\ UNCHANGED <<queueVars, playerVars, trackerVars, engineVars, libVars,
                   relayVars, chirpVars, mainVars, sizeVars, cacheVars,
                   envVars, wireVars, keyVars>>

InitTerm ==
    QueueInit({NoQueues}) /\ PlayerInit /\ TrackerInit({DefaultEchoTimeout})
    /\ EngineInit /\ TermInit /\ LibInit /\ RelayInit /\ ChirpInit /\ MainInit
    /\ SizeInit /\ CacheInit /\ EnvInit /\ WireInit /\ KeyIdle

NextTerm ==
    \/ TermStartPty
    \/ TermStartMakeRaw
    \/ TermExternalStop
    \/ TermStopEnter
    \/ TermStopClose
    \/ TermStopPtyClose
    \/ TermStopReturn
    \/ TermRestore
    \/ TermResizeSignal
    \/ TermResizeStop
    \/ TermCopyInSelect
    \/ TermCopyInRead
    \/ TermCopyInCallHandler
    \/ TermCopyInHandlerReturned
    \/ TermCopyInWrite
    \/ TermCopyOutSelect
    \/ TermCopyOutRead
    \/ TermCopyOutCallHandler
    \/ TermCopyOutHandlerReturned
    \/ TermCopyOutWrite
    \/ TermWaitCall
    \/ TermWaitProcess
    \/ TermShellExit

SpecTerm == InitTerm /\ [][NextTerm]_vars

\* ------------------------------------------------- the resize handler

SizeInitial ==
    ResizeInitial
    /\ UNCHANGED <<queueVars, playerVars, trackerVars, engineVars, termVars,
                   libVars, relayVars, chirpVars, mainVars, cacheVars,
                   envVars, wireVars, keyVars>>

SizeNotified ==
    ResizeSignal /\ ResizeNotified
    /\ UNCHANGED <<queueVars, playerVars, trackerVars, engineVars, libVars,
                   relayVars, chirpVars, mainVars, cacheVars, envVars,
                   wireVars, keyVars>>

SizeStop ==
    ResizeStop /\ ResizeStopped
    /\ UNCHANGED <<queueVars, playerVars, trackerVars, engineVars, libVars,
                   relayVars, chirpVars, mainVars, cacheVars, envVars,
                   wireVars, keyVars>>

InitResize ==
    QueueInit({NoQueues}) /\ PlayerInit /\ TrackerInit({DefaultEchoTimeout})
    /\ EngineInit /\ TermInit /\ LibInit /\ RelayInit /\ ChirpInit /\ MainInit
    /\ SizeInit /\ CacheInit /\ EnvInit /\ WireInit /\ KeyIdle

NextResize ==
    \/ TermStartPty
    \/ TermStartMakeRaw
    \/ TermExternalStop
    \/ TermStopEnter
    \/ TermStopClose
    \/ TermStopPtyClose
    \/ TermStopReturn
    \/ TermRestore
    \/ SizeInitial
    \/ SizeNotified
    \/ SizeStop
    \/ TermWaitCall
    \/ TermWaitProcess
    \/ TermShellExit

SpecResize == InitResize /\ [][NextResize]_vars

\* ------------------------------------------------ the rendered-buffer cache

CacheCall == \E c \in CacheCallers, opts \in CacheOptions :
    PlayChirpCall(c, opts)
    /\ UNCHANGED <<queueVars, trackerVars, engineVars, termVars, libVars,
                   relayVars, chirpVars, mainVars, sizeVars, envVars,
                   wireVars, keyVars>>

CacheGate == \E c \in CacheCallers :
    PlayChirpIsPlaying(c)
    /\ UNCHANGED <<queueVars, trackerVars, engineVars, termVars, libVars,
                   relayVars, chirpVars, mainVars, sizeVars, envVars,
                   wireVars, keyVars>>

CacheMark == \E c \in CacheCallers :
    PlayChirpMark(c)
    /\ UNCHANGED <<queueVars, trackerVars, engineVars, termVars, libVars,
                   relayVars, chirpVars, mainVars, sizeVars, envVars,
                   wireVars, keyVars>>

CacheLookup == \E c \in CacheCallers :
    getCachedChirp(c)
    /\ UNCHANGED <<queueVars, trackerVars, engineVars, termVars, libVars,
                   relayVars, chirpVars, mainVars, sizeVars, envVars,
                   wireVars, keyVars>>

CacheStore == \E c \in CacheCallers :
    cacheChirp(c)
    /\ UNCHANGED <<queueVars, trackerVars, engineVars, termVars, libVars,
                   relayVars, chirpVars, mainVars, sizeVars, envVars,
                   wireVars, keyVars>>

CacheRead == \E c \in CacheCallers :
    PlaySoundRead(c)
    /\ UNCHANGED <<queueVars, trackerVars, engineVars, termVars, libVars,
                   relayVars, chirpVars, mainVars, sizeVars, envVars,
                   wireVars, keyVars>>

CachePlay == \E c \in CacheCallers :
    PlaySoundPlay(c)
    /\ UNCHANGED <<queueVars, trackerVars, engineVars, termVars, libVars,
                   relayVars, chirpVars, mainVars, sizeVars, envVars,
                   wireVars, keyVars>>

CacheTick ==
    ClockTick
    /\ UNCHANGED <<queueVars, trackerVars, engineVars, termVars, libVars,
                   relayVars, chirpVars, mainVars, sizeVars,
                   cacheVars, envVars, wireVars, keyVars>>

InitCache ==
    QueueInit({NoQueues}) /\ PlayerInit /\ TrackerInit({DefaultEchoTimeout})
    /\ EngineInit /\ TermInit /\ LibInit /\ RelayInit /\ ChirpInit /\ MainInit
    /\ SizeInit /\ CacheInit /\ EnvInit /\ WireInit /\ KeyIdle

NextCache ==
    \/ CacheCall
    \/ CacheGate
    \/ CacheMark
    \/ CacheLookup
    \/ CacheStore
    \/ CacheRead
    \/ CachePlay
    \/ CacheTick

SpecCache == InitCache /\ [][NextCache]_vars

\* ------------------------------------------------------- the envelope

EnvelopeCall == \E d \in EnvelopeDurations, v \in EnvelopeVolumes :
    GenerateChirpCall(d, v)
    /\ UNCHANGED <<queueVars, playerVars, trackerVars, engineVars, termVars,
                   libVars, relayVars, chirpVars, mainVars, sizeVars,
                   cacheVars, wireVars, keyVars>>

EnvelopeLoop ==
    GenerateChirpLoop
    /\ UNCHANGED <<queueVars, playerVars, trackerVars, engineVars, termVars,
                   libVars, relayVars, chirpVars, mainVars, sizeVars,
                   cacheVars, wireVars, keyVars>>

InitEnvelope ==
    QueueInit({NoQueues}) /\ PlayerInit /\ TrackerInit({DefaultEchoTimeout})
    /\ EngineInit /\ TermInit /\ LibInit /\ RelayInit /\ ChirpInit /\ MainInit
    /\ SizeInit /\ CacheInit /\ EnvInit /\ WireInit /\ KeyIdle

NextEnvelope ==
    \/ EnvelopeCall
    \/ EnvelopeLoop

SpecEnvelope == InitEnvelope /\ [][NextEnvelope]_vars

\* ------------------------------------------- the key of an input chunk

KeyCall ==
    InputKeyCall
    /\ UNCHANGED <<queueVars, playerVars, trackerVars, engineVars, termVars,
                   libVars, relayVars, chirpVars, mainVars, sizeVars,
                   cacheVars, envVars, wireVars>>

InitKey ==
    QueueInit({NoQueues}) /\ PlayerInit /\ TrackerInit({DefaultEchoTimeout})
    /\ EngineInit /\ TermInit /\ LibInit /\ RelayInit /\ ChirpInit /\ MainInit
    /\ SizeInit /\ CacheInit /\ EnvInit /\ WireInit /\ KeyInit

NextKey == KeyCall

SpecKey == InitKey /\ [][NextKey]_vars

\* The session whose owner may also call Stop before Start.
TermStopBeforeStart ==
    StopBeforeStart
    /\ UNCHANGED <<queueVars, playerVars, trackerVars, engineVars, libVars,
                   relayVars, chirpVars, mainVars, sizeVars, cacheVars,
                   envVars, wireVars, keyVars>>

NextTermEarly == NextTerm \/ TermStopBeforeStart

SpecTermEarly == InitTerm /\ [][NextTermEarly]_vars

\* ------------------------------------------------------------ the session

\* Chirp.Start is in c.term.Start().
SessStartPty == \E ok \in BOOLEAN :
    /\ cStartPc = "termstart"
    /\ StartPty(ok)
    /\ UNCHANGED <<queueVars, playerVars, trackerVars, engineVars, libVars,
                   relayVars, chirpVars, mainVars, sizeVars, cacheVars,
                   envVars, wireVars, keyVars>>

SessStartMakeRaw == \E ok \in BOOLEAN :
    /\ cStartPc = "termstart"
    /\ StartMakeRaw(ok)
    /\ UNCHANGED <<queueVars, playerVars, trackerVars, engineVars, libVars,
                   relayVars, chirpVars, mainVars, sizeVars, cacheVars,
                   envVars, wireVars, keyVars>>

SessStartFailed ==
    ChirpStartFailed
    /\ UNCHANGED <<queueVars, playerVars, trackerVars, engineVars, termVars,
                   libVars, relayVars, mainVars, sizeVars, cacheVars, envVars,
                   wireVars, keyVars>>

SessStartWatch ==
    /\ ChirpStartWatch
    /\ WaitCall
    /\ UNCHANGED <<queueVars, playerVars, trackerVars, engineVars, libVars,
                   relayVars, mainVars, sizeVars, cacheVars, envVars,
                   wireVars, keyVars>>

SessStartReturn ==
    ChirpStartReturn
    /\ UNCHANGED <<queueVars, playerVars, trackerVars, engineVars, termVars,
                   libVars, relayVars, mainVars, sizeVars, cacheVars, envVars,
                   wireVars, keyVars>>

SessCancel ==
    CtxCancel
    /\ UNCHANGED <<queueVars, playerVars, trackerVars, engineVars, termVars,
                   libVars, relayVars, mainVars, sizeVars, cacheVars, envVars,
                   wireVars, keyVars>>

SessWatcherCancel ==
    WatcherCancel
    /\ UNCHANGED <<queueVars, playerVars, trackerVars, engineVars, termVars,
                   libVars, relayVars, mainVars, sizeVars, cacheVars, envVars,
                   wireVars, keyVars>>

SessWatcherStopped ==
    WatcherStopped
    /\ UNCHANGED <<queueVars, playerVars, trackerVars, engineVars, termVars,
                   libVars, relayVars, mainVars, sizeVars, cacheVars, envVars,
                   wireVars, keyVars>>

SessOwnerStop ==
    OwnerStop
    /\ UNCHANGED <<queueVars, playerVars, trackerVars, engineVars, termVars,
                   libVars, relayVars, mainVars, sizeVars, cacheVars, envVars,
                   wireVars, keyVars>>

SessStopEnter == \E c \in ChirpStopCallers :
    ChirpStopEnter(c)
    /\ UNCHANGED <<queueVars, playerVars, trackerVars, engineVars, termVars,
                   libVars, relayVars, mainVars, sizeVars, cacheVars, envVars,
                   wireVars, keyVars>>

SessStopClose == \E c \in ChirpStopCallers :
    ChirpStopClose(c)
    /\ UNCHANGED <<queueVars, playerVars, trackerVars, engineVars, termVars,
                   libVars, relayVars, mainVars, sizeVars, cacheVars, envVars,
                   wireVars, keyVars>>

SessStopQueue == \E c \in ChirpStopCallers, q \in Queues :
    /\ ChirpStopQueue(c, q)
    /\ QueueStop(q)
    /\ UNCHANGED <<playerVars, trackerVars, engineVars, termVars, libVars,
                   relayVars, mainVars, sizeVars, cacheVars, envVars,
                   wireVars, keyVars>>

SessStopTerm == \E c \in ChirpStopCallers :
    /\ ChirpStopTerm(c)
    /\ ExternalStop
    /\ UNCHANGED <<queueVars, playerVars, trackerVars, engineVars, libVars,
                   relayVars, mainVars, sizeVars, cacheVars, envVars,
                   wireVars, keyVars>>

SessStopPlayer == \E c \in ChirpStopCallers :
    ChirpStopPlayer(c)
    /\ UNCHANGED <<queueVars, playerVars, trackerVars, engineVars, termVars,
                   libVars, relayVars, mainVars, sizeVars, cacheVars, envVars,
                   wireVars, keyVars>>

SessStopReturn == \E c \in ChirpStopCallers :
    ChirpStopReturn(c)
    /\ UNCHANGED <<queueVars, playerVars, trackerVars, engineVars, termVars,
                   libVars, relayVars, mainVars, sizeVars, cacheVars, envVars,
                   wireVars, keyVars>>

\* A stream fails: t.stdin.Read returns an error or EOF.
SessCopyInFail ==
    CopyInRead(FALSE)
    /\ UNCHANGED <<queueVars, playerVars, trackerVars, engineVars, libVars,
                   relayVars, chirpVars, mainVars, sizeVars, cacheVars,
                   envVars, wireVars, keyVars>>

\* A stream fails: t.ptyFile.Read returns an error (the shell has exited or
\* the PTY is closed).
SessCopyOutFail ==
    CopyOutRead(FALSE)
    /\ UNCHANGED <<queueVars, playerVars, trackerVars, engineVars, libVars,
                   relayVars, chirpVars, mainVars, sizeVars, cacheVars,
                   envVars, wireVars, keyVars>>

InitSession ==
    QueueInit({DefaultConfig}) /\ PlayerInit /\ TrackerInit({DefaultEchoTimeout})
    /\ EngineInit /\ TermInit /\ LibInit /\ RelayInit /\ ChirpInit /\ MainInit
    /\ SizeInit /\ CacheInit /\ EnvInit /\ WireInit /\ KeyIdle

\* What the session's goroutines do by themselves.
SessOwnStep ==
    \/ SessStartFailed
    \/ SessStartWatch
    \/ SessStartReturn
    \/ SessWatcherCancel
    \/ SessWatcherStopped
    \/ SessStopEnter
    \/ SessStopClose
    \/ SessStopQueue
    \/ SessStopTerm
    \/ SessStopPlayer
    \/ SessStopReturn
    \/ TermStopEnter
    \/ TermStopClose
    \/ TermStopPtyClose
    \/ TermStopReturn
    \/ TermCopyInSelect
    \/ TermCopyOutSelect
    \/ SessCopyOutFail
    \/ TermWaitProcess
    \/ RunSelectStop

\* The session from Chirp.Start on: the terminal is started, the streams may
\* fail, the shell may exit, the owner may cancel the context or call
\* Chirp.Stop.  No data is relayed; the resize loop and the goroutine that
\* restores the terminal mode are left aside.
NextSession ==
    \/ SessStartPty
    \/ SessStartMakeRaw
    \/ SessCancel
    \/ SessOwnerStop
    \/ SessCopyInFail
    \/ TermShellExit
    \/ SessOwnStep

SpecSession == InitSession /\ [][NextSession]_vars

\* ------------------------------------------------ configuration loading

\* LoadConfig is called with a file, once, at start-up.
ConfigLoad == \E file \in TomlFiles :
    /\ ~loaded.done
    /\ tomlFile' = file
    /\ loaded' = LoadConfig(file)
    /\ created' = [done |-> FALSE, err |-> FALSE, Config |-> 0]
    /\ UNCHANGED <<synthLog, queueVars, playerVars, trackerVars, engineVars,
                   termVars, relayVars, chirpVars, mainVars, sizeVars,
                   cacheVars, envVars, wireVars, keyVars>>

\* chirp.New: NewQueue on a queue of the loaded configuration.
ConfigNewQueue == \E q \in DOMAIN loaded.cfg.Queues :
    /\ loaded.done /\ ~loaded.err
    /\ created' = NewQueue(loaded.cfg.Queues[q])
    /\ UNCHANGED <<tomlFile, loaded, synthLog, queueVars, playerVars,
                   trackerVars, engineVars, termVars, relayVars, chirpVars, mainVars,
                   sizeVars, cacheVars, envVars, wireVars, keyVars>>

\* chirp.New: NewQueue on a queue of DefaultConfig.
ConfigNewQueueDefault == \E q \in DOMAIN DefaultConfig :
    /\ created' = NewQueue(DefaultConfig[q])
    /\ UNCHANGED <<tomlFile, loaded, synthLog, queueVars, playerVars,
                   trackerVars, engineVars, termVars, relayVars, chirpVars, mainVars,
                   sizeVars, cacheVars, envVars, wireVars, keyVars>>

\* NewQueue on a queue that was decoded but never linked by LoadConfig.
ConfigNewQueueUnlinked == \E q \in DOMAIN tomlFile.Queues :
    /\ created' = NewQueue(tomlFile.Queues[q])
    /\ UNCHANGED <<tomlFile, loaded, synthLog, queueVars, playerVars,
                   trackerVars, engineVars, termVars, relayVars, chirpVars, mainVars,
                   sizeVars, cacheVars, envVars, wireVars, keyVars>>

InitConfig ==
    QueueInit({NoQueues}) /\ PlayerInit /\ TrackerInit({DefaultEchoTimeout})
    /\ EngineInit /\ TermInit /\ LibInit /\ RelayInit /\ ChirpInit /\ MainInit
    /\ SizeInit /\ CacheInit /\ EnvInit /\ WireInit /\ KeyIdle

NextConfig ==
    \/ ConfigLoad
    \/ ConfigNewQueue
    \/ ConfigNewQueueDefault
    \/ ConfigNewQueueUnlinked

SpecConfig == InitConfig /\ [][NextConfig]_vars

\* ------------------------------------------------------ the synthesizers

\* The samples the play functions are given: durations of -1, 0, 1 and 9 ms,
\* silent and audible, two frequencies.
SynthSamples ==
    { SampleConfig("s", d, f, v) :
        d \in {-1, 0, 1, 9}, f \in {392, 587}, v \in {0, 30} }

\* OtoPlayer.Play(sample); the log keeps the last two calls.
SynthOtoPlay == \E smp \in SynthSamples :
    /\ synthLog' = IF Len(synthLog) < 2 THEN Append(synthLog, OtoPlay(smp))
                   ELSE <<synthLog[2], OtoPlay(smp)>>
    /\ UNCHANGED <<tomlFile, loaded, created, queueVars, playerVars,
                   trackerVars, engineVars, termVars, relayVars, chirpVars, mainVars,
                   sizeVars, cacheVars, envVars, wireVars, keyVars>>

\* PlayChirp(opts) of the root package.
SynthPlayChirp == \E opts \in SynthSamples :
    /\ synthLog' = IF Len(synthLog) < 2 THEN Append(synthLog, PlayChirp(opts))
                   ELSE <<synthLog[2], PlayChirp(opts)>>
    /\ UNCHANGED <<tomlFile, loaded, created, queueVars, playerVars,
                   trackerVars, engineVars, termVars, relayVars, chirpVars, mainVars,
                   sizeVars, cacheVars, envVars, wireVars, keyVars>>

InitSynth ==
    QueueInit({NoQueues}) /\ PlayerInit /\ TrackerInit({DefaultEchoTimeout})
    /\ EngineInit /\ TermInit /\ LibInit /\ RelayInit /\ ChirpInit /\ MainInit
    /\ SizeInit /\ CacheInit /\ EnvInit /\ WireInit /\ KeyIdle

NextSynth ==
    \/ SynthOtoPlay
    \/ SynthPlayChirp

SpecSynth == InitSynth /\ [][NextSynth]_vars

\* ------------------- the copy loops, the engine, an audio device that hangs

\* The byte the handlers are given: Enter, which the trigger matches.
RelayBytes == {"\n"}

\* The configuration: one trigger on "\n" of max_length 1.
RelayConfigs ==
    { [q \in {"enter"} |-> QueueConfig("enter", {<<"\n">>}, SampleBeep, 1)] }

\* copyInput calls t.HandleInput(data), which is Chirp.handleInput, with a
\* chunk of 1 to MaxChunk bytes.
RelayInCall == \E n \in 1..MaxChunk :
    /\ CopyInCallHandler
    /\ inLeft' = n
    /\ UNCHANGED <<outLeft, queueVars, playerVars, trackerVars, engineVars,
                   libVars, chirpVars, mainVars, sizeVars, cacheVars, envVars,
                   wireVars, keyVars>>

\* Chirp.handleInput, outer loop.
RelayInByte == \E b \in RelayBytes :
    /\ copyInPc = "handler"
    /\ inLeft > 0
    /\ HandleInputByte(b)
    /\ inLeft' = inLeft - 1
    /\ UNCHANGED <<outLeft, queueVars, playerVars, trackerVars, termVars,
                   libVars, chirpVars, mainVars, sizeVars, cacheVars, envVars,
                   wireVars, keyVars>>

\* Chirp.handleInput, inner loop.
RelayInAdd == \E q \in Queues :
    /\ copyInPc = "handler"
    /\ HandleInputAdd(q)
    /\ UNCHANGED <<playerVars, trackerVars, termVars, libVars, relayVars,
                   chirpVars, mainVars, sizeVars, cacheVars, envVars,
                   wireVars, keyVars>>

\* Chirp.handleInput returns nil to copyInput.
RelayInReturn ==
    /\ inLeft = 0
    /\ inPending = {}
    /\ CopyInHandlerReturned
    /\ UNCHANGED <<queueVars, playerVars, trackerVars, engineVars, libVars,
                   relayVars, chirpVars, mainVars, sizeVars, cacheVars,
                   envVars, wireVars, keyVars>>

\* copyOutput calls t.HandleOutput(data), which is Chirp.handleOutput.
RelayOutCall == \E n \in 1..MaxChunk :
    /\ CopyOutCallHandler
    /\ outLeft' = n
    /\ UNCHANGED <<inLeft, queueVars, playerVars, trackerVars, engineVars,
                   libVars, chirpVars, mainVars, sizeVars, cacheVars, envVars,
                   wireVars, keyVars>>

RelayOutByte == \E b \in RelayBytes :
    /\ copyOutPc = "handler"
    /\ outLeft > 0
    /\ HandleOutputByte(b)
    /\ outLeft' = outLeft - 1
    /\ UNCHANGED <<inLeft, queueVars, playerVars, trackerVars, termVars,
                   libVars, chirpVars, mainVars, sizeVars, cacheVars, envVars,
                   wireVars, keyVars>>

RelayOutAdd == \E q \in Queues :
    /\ copyOutPc = "handler"
    /\ HandleOutputAdd(q)
    /\ UNCHANGED <<playerVars, trackerVars, termVars, libVars, relayVars,
                   chirpVars, mainVars, sizeVars, cacheVars, envVars,
                   wireVars, keyVars>>

RelayOutReturn ==
    /\ outLeft = 0
    /\ outPending = {}
    /\ CopyOutHandlerReturned
    /\ UNCHANGED <<queueVars, playerVars, trackerVars, engineVars, libVars,
                   relayVars, chirpVars, mainVars, sizeVars, cacheVars,
                   envVars, wireVars, keyVars>>

\* copyInput: t.stdin.Read returns a chunk.
RelayInRead ==
    CopyInRead(TRUE)
    /\ UNCHANGED <<queueVars, playerVars, trackerVars, engineVars, libVars,
                   relayVars, chirpVars, mainVars, sizeVars, cacheVars,
                   envVars, wireVars, keyVars>>

\* copyInput: t.ptyFile.Write(data) writes the chunk.
RelayInWrite ==
    CopyInWrite(TRUE)
    /\ UNCHANGED <<queueVars, playerVars, trackerVars, engineVars, libVars,
                   relayVars, chirpVars, mainVars, sizeVars, cacheVars,
                   envVars, wireVars, keyVars>>

\* copyOutput: t.ptyFile.Read returns a chunk.
RelayOutRead ==
    CopyOutRead(TRUE)
    /\ UNCHANGED <<queueVars, playerVars, trackerVars, engineVars, libVars,
                   relayVars, chirpVars, mainVars, sizeVars, cacheVars,
                   envVars, wireVars, keyVars>>

\* copyOutput: t.stdout.Write(data) writes the chunk.
RelayOutWrite ==
    CopyOutWrite(TRUE)
    /\ UNCHANGED <<queueVars, playerVars, trackerVars, engineVars, libVars,
                   relayVars, chirpVars, mainVars, sizeVars, cacheVars,
                   envVars, wireVars, keyVars>>

InitRelay ==
    QueueInit(RelayConfigs) /\ PlayerInit /\ TrackerInit({DefaultEchoTimeout})
    /\ EngineInit /\ TermInit /\ LibInit /\ RelayInit /\ ChirpInit /\ MainInit
    /\ SizeInit /\ CacheInit /\ EnvInit /\ WireInit /\ KeyIdle

\* A session in which nothing goes wrong with the terminal (no read or write
\* fails, nobody calls Stop) while the audio device never finishes a
\* playback: the consumer that reaches playSound stays there.
NextRelay ==
    \/ TermStartPty
    \/ TermStartMakeRaw
    \/ TermCopyInSelect
    \/ RelayInRead
    \/ RelayInCall
    \/ RelayInByte
    \/ RelayInAdd
    \/ RelayInReturn
    \/ RelayInWrite
    \/ TermCopyOutSelect
    \/ RelayOutRead
    \/ RelayOutCall
    \/ RelayOutByte
    \/ RelayOutAdd
    \/ RelayOutReturn
    \/ RelayOutWrite
    \/ GateDequeue
    \/ GateCheck
    \/ GateMark

SpecRelay == InitRelay /\ [][NextRelay]_vars

\* ------------------------------- the copy loops with the bytes they carry

\* copyInput: t.stdin.Read returns a chunk, or an error.
WireInRead == \E ok \in BOOLEAN :
    /\ CopyInRead(ok)
    /\ IF ok THEN \E data \in WireChunks : StdinRead(data)
       ELSE UNCHANGED wireVars
    /\ UNCHANGED <<queueVars, playerVars, trackerVars, engineVars, libVars,
                   relayVars, chirpVars, mainVars, sizeVars, cacheVars,
                   envVars, keyVars>>

\* copyInput calls t.HandleInput(data), which is Chirp.handleInput.
WireInCall ==
    /\ CopyInCallHandler
    /\ inLeft' = Len(inData)
    /\ UNCHANGED <<outLeft, queueVars, playerVars, trackerVars, engineVars,
                   libVars, chirpVars, mainVars, sizeVars, cacheVars, envVars,
                   wireVars, keyVars>>

\* Chirp.handleInput, outer loop: the next byte of data.
WireInByte ==
    /\ copyInPc = "handler"
    /\ inLeft > 0
    /\ HandleInputByte(inData[Len(inData) - inLeft + 1])
    /\ inLeft' = inLeft - 1
    /\ UNCHANGED <<outLeft, queueVars, playerVars, trackerVars, termVars,
                   libVars, chirpVars, mainVars, sizeVars, cacheVars, envVars,
                   wireVars, keyVars>>

\* copyInput: t.ptyFile.Write(data) writes the chunk, or a part of it and
\* returns an error.
WireInWrite == \E ok \in BOOLEAN :
    /\ CopyInWrite(ok)
    /\ IF ok THEN PtyWrite(Len(inData))
       ELSE \E n \in 0..(Len(inData) - 1) : PtyWrite(n)
    /\ UNCHANGED <<queueVars, playerVars, trackerVars, engineVars, libVars,
                   relayVars, chirpVars, mainVars, sizeVars, cacheVars,
                   envVars, keyVars>>

\* copyOutput: t.ptyFile.Read returns a chunk, or an error.
WireOutRead == \E ok \in BOOLEAN :
    /\ CopyOutRead(ok)
    /\ IF ok THEN \E data \in WireChunks : PtyRead(data)
       ELSE UNCHANGED wireVars
    /\ UNCHANGED <<queueVars, playerVars, trackerVars, engineVars, libVars,
                   relayVars, chirpVars, mainVars, sizeVars, cacheVars,
                   envVars, keyVars>>

\* copyOutput calls t.HandleOutput(data), which is Chirp.handleOutput.
WireOutCall ==
    /\ CopyOutCallHandler
    /\ outLeft' = Len(outData)
    /\ UNCHANGED <<inLeft, queueVars, playerVars, trackerVars, engineVars,
                   libVars, chirpVars, mainVars, sizeVars, cacheVars, envVars,
                   wireVars, keyVars>>

\* Chirp.handleOutput, outer loop: the next byte of data.
WireOutByte ==
    /\ copyOutPc = "handler"
    /\ outLeft > 0
    /\ HandleOutputByte(outData[Len(outData) - outLeft + 1])
    /\ outLeft' = outLeft - 1
    /\ UNCHANGED <<inLeft, queueVars, playerVars, trackerVars, termVars,
                   libVars, chirpVars, mainVars, sizeVars, cacheVars, envVars,
                   wireVars, keyVars>>

\* copyOutput: t.stdout.Write(data) writes the chunk, or a part of it and
\* returns an error.
WireOutWrite == \E ok \in BOOLEAN :
    /\ CopyOutWrite(ok)
    /\ IF ok THEN StdoutWrite(Len(outData))
       ELSE \E n \in 0..(Len(outData) - 1) : StdoutWrite(n)
    /\ UNCHANGED <<queueVars, playerVars, trackerVars, engineVars, libVars,
                   relayVars, chirpVars, mainVars, sizeVars, cacheVars,
                   envVars, keyVars>>

InitWire ==
    QueueInit(RelayConfigs) /\ PlayerInit /\ TrackerInit({DefaultEchoTimeout})
    /\ EngineInit /\ TermInit /\ LibInit /\ RelayInit /\ ChirpInit /\ MainInit
    /\ SizeInit /\ CacheInit /\ EnvInit /\ WireInit /\ KeyIdle

\* A session whose reads and writes may fail, with the triggers' consumers
\* running on a player that may return errors.
NextWire ==
    \/ TermStartPty
    \/ TermStartMakeRaw
    \/ TermStopEnter
    \/ TermStopClose
    \/ TermStopPtyClose
    \/ TermStopReturn
    \/ TermCopyInSelect
    \/ WireInRead
    \/ WireInCall
    \/ WireInByte
    \/ RelayInAdd
    \/ RelayInReturn
    \/ WireInWrite
    \/ TermCopyOutSelect
    \/ WireOutRead
    \/ WireOutCall
    \/ WireOutByte
    \/ RelayOutAdd
    \/ RelayOutReturn
    \/ WireOutWrite
    \/ RunSelectItem
    \/ PlayOk
    \/ PlayErr

SpecWire == InitWire /\ [][NextWire]_vars

\* ------------------------------------------------ claims about the queue

IsPrefix(s, t) == Len(s) <= Len(t) /\ SubSeq(t, 1, Len(s)) = s

\* All offers of q were made before any player.Play call of q returned.
Burst(q) == offered[q] = MaxOffers /\ offerSeen[q] = 0

\* C1: Queue.Add never blocks its caller and never panics: in every
\* reachable state (mailbox empty or full, consumer busy, Stop called or not)
\* a further Add call can take its step, and no goroutine has panicked.
C1_AddNeverBlocks ==
    /\ ~panicked
    /\ \A q \in Queues :
          offered[q] < MaxOffers => ENABLED QueueAdd(q, offered[q] + 1)

\* An Add call was made, and dropped its item, on a full mailbox with the
\* consumer inside player.Play and Stop already called.
C1_Witness ==
    \E q \in Queues :
        /\ offered[q] = MaxOffers
        /\ dropped[q] >= 1
        /\ stopChan[q] = "closed"
        /\ runPc[q] = "play"
        /\ Len(itemChan[q]) = cfg[q].MaxLength

\* C2 as stated: of max_length + k items offered before the consumer
\* finished a single playback, exactly max_length are ever consumed and the
\* other k are dropped.
C2_ExactlyMaxLength ==
    \A q \in Queues :
        Burst(q) =>
            /\ Len(started[q]) <= cfg[q].MaxLength
            /\ dropped[q] = MaxOffers - cfg[q].MaxLength

\* C2 amended: of max_length + k items offered before the consumer finished
\* a single playback, max_length or max_length + 1 are accepted (one more
\* when the consumer had already taken an item out of the mailbox), the
\* others are dropped, and only accepted items are ever consumed.
C2_MaxLengthOrOneMore ==
    \A q \in Queues :
        Burst(q) =>
            /\ Len(accepted[q]) \in {cfg[q].MaxLength, cfg[q].MaxLength + 1}
            /\ dropped[q] = MaxOffers - Len(accepted[q])
            /\ IsPrefix(started[q], accepted[q])

\* A burst of which max_length + 1 items were consumed.
C2_Witness ==
    \E q \in Queues :
        Burst(q) /\ Len(started[q]) = cfg[q].MaxLength + 1

\* C3: within one trigger the playbacks start in the order in which Add
\* accepted their items, and no playback starts before the player.Play call
\* of the previous item has returned.
C3_FifoOneAtATime ==
    \A q \in Queues :
        /\ IsPrefix(started[q], accepted[q])
        /\ inPlay[q] <= 1
        /\ Len(started[q]) - finished[q] = inPlay[q]

\* Three items of a queue of capacity 2 were played, two of them having
\* waited in the mailbox together.
C3_Witness ==
    \E q \in Queues :
        /\ cfg[q].MaxLength = 2
        /\ Len(started[q]) = 3
        /\ Len(itemChan[q]) = 1
        /\ finished[q] = 2

\* ----------------------------------------- claims about the player's gate

\* The Play calls that handed a buffer to the audio device.
DevicePlays ==
    { c \in { <<q, i>> : q \in Queues, i \in 1..MaxPlays } :
        c[2] <= Len(calls[c[1]]) /\ calls[c[1]][c[2]].device }

\* When the Play call c marked its start.
MarkOf(c) == calls[c[1]][c[2]].mark

\* C4 as stated: under every interleaving of the Play calls of different
\* triggers' consumers on one player, any two playbacks that reach the audio
\* device have start times at least minSoundGap apart.
C4_PlaybacksGapApart ==
    \A c, d \in DevicePlays :
        c # d => \/ MarkOf(c) - MarkOf(d) >= minSoundGap
                 \/ MarkOf(d) - MarkOf(c) >= minSoundGap

\* The latest start marked by the first i Play calls of q (-1: none).
RECURSIVE LatestMark(_, _)
LatestMark(q, i) ==
    IF i = 0 THEN -1
    ELSE IF calls[q][i].marked THEN calls[q][i].mark
    ELSE LatestMark(q, i - 1)

\* The Play call i of q has got past the gate and markSoundStart, or
\* returned.
Decided(q, i) == i < Len(calls[q]) \/ playPc[q] # "mark"

\* C5: with a single consumer (sequential Play calls) and an audible sample,
\* a Play call that follows a call which marked its start invokes the audio
\* device if and only if it reads the gate at least minSoundGap after that
\* mark.
C5_SecondPlayIffGapElapsed ==
    \A q \in Queues :
        (Cardinality(Queues) = 1 /\ ~RendersNothing(cfg[q].Sample)) =>
            \A i \in 2..Len(calls[q]) :
                (Decided(q, i) /\ LatestMark(q, i - 1) >= 0) =>
                    (calls[q][i].device <=>
                        calls[q][i].gate - LatestMark(q, i - 1) >= minSoundGap)

\* Three sequential Play calls: the first played, the second came less than
\* the gap after the first's mark and did not, the third came at least the
\* gap after it and played.
C5_Witness ==
    \E q \in Queues :
        /\ Cardinality(Queues) = 1
        /\ Len(calls[q]) = 3
        /\ calls[q][1].device
        /\ ~calls[q][2].device
        /\ calls[q][2].gate - calls[q][1].mark < minSoundGap
        /\ calls[q][3].device
        /\ calls[q][3].gate - calls[q][1].mark >= minSoundGap

\* ------------------------------------------- claims about the echo tracker

\* C7: if byte b was recorded with TrackInput at time T, and not again
\* since, IsRecentInput(b) called at T + d returns true when d < echoTimeout
\* and false when d > echoTimeout.
C7_RecentWithinTimeout ==
    (lastCheck.valid /\ lastCheck.recorded >= 0) =>
        /\ lastCheck.at - lastCheck.recorded < timeout => lastCheck.result
        /\ lastCheck.at - lastCheck.recorded > timeout => ~lastCheck.result

\* IsRecentInput answered true for a byte recorded less than the timeout
\* before, other bytes having been recorded and looked up in between.
C7_Witness ==
    /\ lastCheck.valid
    /\ lastCheck.result
    /\ lastCheck.recorded >= 0
    /\ lastCheck.at > lastCheck.recorded
    /\ tracks = MaxTracks
    /\ Len(chars) >= 2

\* ------------------------------------------------ claims about the engine

\* C6 as stated: handleOutput enqueues nothing for a byte that was passed
\* to handleInput less than the echo timeout earlier.
C6_EchoNotEnqueued == echoAccepted = 0

\* The number of Play calls of queue q that handed a buffer to the device.
Playbacks(q) == Cardinality({i \in 1..Len(calls[q]) : calls[q][i].device})

\* One trigger on "\n", max_length 1, the 100 ms sample; two newline bytes
\* were passed through handleInput within 5 ms of each other and nothing
\* else was handled; everything offered has been dealt with.
TwoNewlinesSettled ==
    /\ DOMAIN cfg = {"enter"}
    /\ outCount = 0
    /\ Len(inLog) = 2
    /\ \A i \in 1..2 : inLog[i].byte = "\n"
    /\ inLog[2].at - inLog[1].at <= 5
    /\ inPending = {}
    /\ itemChan["enter"] = <<>>
    /\ runPc["enter"] = "select"

StopHasReturned == \E c \in StopCallers : stopPc[c] = "returned"

\* C9: however the callers of Terminal.Stop (the copy loops, Wait, an
\* external caller) interleave on a started session, no call panics, the stop
\* signal is closed at most once, the PTY at most once and the state restored
\* at most once; once a call has returned, the signal and the PTY have been
\* closed exactly once and the one restore has been done or is ready to run.
C9_StopOnce ==
    startPc = "started" =>
        /\ ~tPanicked
        /\ tStopCloses <= 1
        /\ ptyCloses <= 1
        /\ restores <= 1
        /\ StopHasReturned =>
              /\ tStopCloses = 1
              /\ ptyCloses = 1
              /\ ptyFile = "closed"
              /\ restores = 1 \/ ENABLED RestoreRun

\* Three calls of Stop have returned (the two copy loops' and the external
\* one), the state has been restored.
C9_Witness ==
    /\ startPc = "started"
    /\ Cardinality({c \in StopCallers : stopPc[c] = "returned"}) >= 3
    /\ restores = 1

\* C10 as stated: whenever Terminal.Stop has returned, and whenever
\* Terminal.Wait has returned nil, term.Restore has been executed.
C10_RestoredBeforeReturn ==
    (startPc = "started" /\ (StopHasReturned \/ waitPc = "nil"))
        => restores = 1

\* Caller c of Terminal.Stop is inside the call and the call can go on: c can
\* take its next step, or the caller that runs the body of the Once can.
StopGoesOn(c) ==
    \/ ENABLED StopEnter(c)
    \/ ENABLED StopClose(c)
    \/ ENABLED StopPtyClose(c)
    \/ ENABLED StopReturn(c)
    \/ \E d \in StopCallers \ {c} : ENABLED StopClose(d) \/ ENABLED StopPtyClose(d)

\* C11: a copy loop that met an error (EOF included) on its read or its write
\* has called Terminal.Stop; the call can always go on, and when it has been
\* executed the stop signal is closed and the PTY is closed; the loop exits
\* only after it.
C11_ErrorStopsSession ==
    \A c \in CopyLoops :
        ioErr[c] =>
            /\ stopPc[c] # "idle"
            /\ stopPc[c] # "returned" => StopGoesOn(c)
            /\ stopPc[c] \in {"leave", "returned"} =>
                  /\ tStopChan = "closed"
                  /\ ptyFile = "closed"
                  /\ tStopOnce = "done"
            /\ (IF c = "copyInput" THEN copyInPc ELSE copyOutPc) =
                  (IF stopPc[c] = "returned" THEN "exited" ELSE "stop")

\* Both copy loops met an error, after data had been relayed, and both
\* calls of Stop have returned.
C11_Witness ==
    /\ \A c \in CopyLoops : ioErr[c] /\ stopPc[c] = "returned"
    /\ reads > 0
    /\ tStopCloses = 1

\* C12: Terminal.Wait has returned nil only if the shell has exited, and then
\* the session has been stopped: the body of Stop has been executed, the stop
\* signal is closed and the PTY is closed.
C12_WaitNilAfterExitAndStop ==
    waitPc = "nil" =>
        /\ shellExited
        /\ tStopOnce = "done"
        /\ tStopChan = "closed"
        /\ tStopCloses = 1
        /\ ptyFile = "closed"

\* Wait returned nil and no copy loop had called Stop: it was Wait's call
\* that stopped the session.
C12_Witness ==
    /\ waitPc = "nil"
    /\ \A c \in StopCallers \ {"wait"} : stopPc[c] = "idle"

\* ----------------------------------------- claims about the configuration

C14_SilentSampleNoError ==
    \A i \in 1..Len(synthLog) :
        (synthLog[i].sample.Volume <= 0 \/ synthLog[i].sample.Duration <= 0) =>
            /\ synthLog[i].data = <<>>
            /\ ~synthLog[i].err
            /\ ~synthLog[i].panic
            /\ ~synthLog[i].device

\* x / y rounded to the nearest whole number.
Round(x, y) == (2 * x + y) \div (2 * y)

\* C15 as stated: for volume > 0 and duration > 0, OtoPlayer.generateChirp
\* returns ChannelCount * round(SampleRate * durationSeconds) samples, left
\* and right equal in each frame, and the same buffer for the same inputs.
C15_BufferLengthStereo ==
    \A i \in 1..Len(synthLog) :
        (/\ synthLog[i].impl = "oto"
         /\ synthLog[i].sample.Volume > 0
         /\ synthLog[i].sample.Duration > 0) =>
            /\ ~synthLog[i].nil
            /\ Len(synthLog[i].data) =
                  ChannelCount * Round(SampleRate * synthLog[i].sample.Duration, 1000)
            /\ \A f \in 1..(Len(synthLog[i].data) \div ChannelCount) :
                  synthLog[i].data[2 * f - 1] = synthLog[i].data[2 * f]
            /\ \A j \in 1..Len(synthLog) :
                  (synthLog[j].impl = "oto" /\ synthLog[j].sample = synthLog[i].sample)
                      => synthLog[j].data = synthLog[i].data

\* --------------------------------------- claims about the queue, continued

\* C16 as stated: no call of Queue.Stop panics, and once Stop has returned
\* (the stop channel is closed) the consumer loop receives no further item:
\* no step after it hands an item to player.Play.
C16_NoDequeueAfterStop ==
    [][/\ ~panicked'
       /\ \A q \in Queues :
            stopChan[q] = "closed" => started'[q] = started[q]]_vars

\* C17: an Add on a full queue drops the new item and leaves the pending
\* items as they are; and whatever the step, the pending items change only
\* by the consumer removing the oldest or by an Add appending to a queue
\* that is not full, so Adds are dropped until the consumer has removed one.
C17_FullQueueDropsNewest ==
    [][\A q \in Queues :
        /\ (offered'[q] # offered[q] /\ Len(itemChan[q]) = ChanCap(cfg[q])) =>
              /\ itemChan'[q] = itemChan[q]
              /\ accepted'[q] = accepted[q]
              /\ dropped'[q] = dropped[q] + 1
        /\ \/ itemChan'[q] = itemChan[q]
           \/ /\ itemChan[q] # <<>>
              /\ itemChan'[q] = Tail(itemChan[q])
              /\ started'[q] = Append(started[q], Head(itemChan[q]))
           \/ /\ Len(itemChan[q]) < ChanCap(cfg[q])
              /\ offered'[q] # offered[q]
              /\ itemChan'[q] = Append(itemChan[q], Last(accepted'[q]))]_vars

\* A queue of capacity 2 is full with the items 2 and 3 behind an item being
\* played, and the Add after them was dropped.
C17_Witness ==
    \E q \in Queues :
        /\ ChanCap(cfg[q]) = 2
        /\ itemChan[q] = <<2, 3>>
        /\ dropped[q] = 1
        /\ offered[q] = 4
        /\ runPc[q] = "play"

\* ------------------------------------------------ claims about the relay

\* Every queue is full and its consumer is inside a playback that does not
\* end.
AudioSaturated ==
    \A q \in Queues :
        Len(itemChan[q]) = ChanCap(cfg[q]) /\ playPc[q] = "device"

\* C18: a copy loop that holds a chunk can always take its next step,
\* whatever the state of the queues and of the player: the handler is
\* entered, takes its bytes, makes its Adds and returns, and then the chunk
\* is written.
C18_RelayNeverBlockedByAudio ==
    /\ copyInPc = "data" => ENABLED RelayInCall
    /\ copyInPc = "handler" =>
          ENABLED RelayInByte \/ ENABLED RelayInAdd \/ ENABLED RelayInReturn
    /\ copyInPc = "write" => ENABLED RelayInWrite
    /\ copyOutPc = "data" => ENABLED RelayOutCall
    /\ copyOutPc = "handler" =>
          ENABLED RelayOutByte \/ ENABLED RelayOutAdd \/ ENABLED RelayOutReturn
    /\ copyOutPc = "write" => ENABLED RelayOutWrite

\* With the queue full and the device hanging, handleInput was given a
\* chunk whose bytes were all dropped, it returned, and the chunk was written
\* to the PTY: copyInput is back at its select, no error met.
C18_Witness ==
    /\ AudioSaturated
    /\ dropped["enter"] >= 2
    /\ copyInPc = "select"
    /\ reads = MaxReads
    /\ copyOutPc = "select"

\* ------------------------------------- claims about the loops and the stop

\* C19 as stated: once the stop signal is closed, no copy loop calls its
\* handler and none attempts a write.
C19_NothingAfterStopClosed ==
    \A c \in CopyLoops : lateCalls[c] = 0 /\ lateWrites[c] = 0

\* C19, amended: the loops look at the stop signal only at the top of an
\* iteration, so a loop that is past its check when the signal is closed
\* finishes that iteration; after the signal is closed each copy loop makes
\* at most one handler call and at most one write attempt, and a loop that
\* has exited made them before it looked.
C19_AtMostOneIterationAfterStop ==
    \A c \in CopyLoops : lateCalls[c] <= 1 /\ lateWrites[c] <= 1

\* copyInput was blocked in its read when the signal was closed; the read
\* then returned a chunk, the handler was called and the write attempted, and
\* the loop has left.
C19_Witness ==
    /\ tStopChan = "closed"
    /\ lateCalls["copyInput"] = 1
    /\ lateWrites["copyInput"] = 1
    /\ copyInPc \in {"stop", "exited"}

\* A step that the goroutines of the session take by themselves: every step
\* but a keystroke or end of input on stdin, a window-size notification, the
\* shell exiting, and the calls made by the owner of the Terminal.
TermOwnStep ==
    \/ TermStopEnter
    \/ TermStopClose
    \/ TermStopPtyClose
    \/ TermStopReturn
    \/ TermRestore
    \/ TermResizeStop
    \/ TermCopyInSelect
    \/ TermCopyInCallHandler
    \/ TermCopyInHandlerReturned
    \/ TermCopyInWrite
    \/ TermCopyOutSelect
    \/ TermCopyOutRead
    \/ TermCopyOutCallHandler
    \/ TermCopyOutHandlerReturned
    \/ TermCopyOutWrite
    \/ TermWaitProcess

\* The loop was never started or has returned.
LoopsExited ==
    /\ resizePc \in {"none", "stopped"}
    /\ copyInPc \in {"none", "exited"}
    /\ copyOutPc \in {"none", "exited"}

\* C20: after Terminal.Stop has been executed the three loops exit by
\* themselves: when Stop has run and the session's goroutines have no step
\* left to take without a keystroke or a resize notification, the resize
\* loop, copyInput and copyOutput have all returned.
C20_LoopsExitUnaided ==
    (tStopOnce = "done" /\ ~ENABLED TermOwnStep) => LoopsExited

\* C21: Stopped is terminal: once Stop has run, a Start that has returned
\* leaves no PTY descriptor open (and so no shell attached to it).
C21_StoppedIsTerminal ==
    (tStopOnce = "done" /\ startPc = "started") => ptyFile # "open"

\* ---------------------------------------------- claims about the session

\* Every queue has been signalled to stop and its consumer loop has returned.
QueuesTornDown ==
    \A q \in Queues : stopChan[q] = "closed" /\ runPc[q] = "exited"

\* C22: when Chirp.Start has returned nil (the shell exited, by itself or
\* after a stream failed and the terminal was stopped), nobody has called
\* Chirp.Stop, and the session's goroutines have run as
\* far as they go by themselves, every queue has been signalled to stop and
\* no consumer loop is left running.
C22_ConsumersTornDown ==
    (/\ cStartPc = "returned"
     /\ waitPc = "nil"
     /\ \A c \in ChirpStopCallers : cStopPc[c] = "idle"
     /\ ~ENABLED SessOwnStep) => QueuesTornDown

\* C23: nothing panics and nothing is closed twice, however often the
\* context is cancelled and whoever else calls Stop; and once the context
\* has been cancelled and the session's goroutines have run as far as they
\* go by themselves, every queue's stop signal, the terminal's stop signal
\* and the PTY are closed.
C23_CancelStopsEverything ==
    /\ ~panicked /\ ~tPanicked /\ ~cPanicked
    /\ tStopCloses <= 1 /\ ptyCloses <= 1
    /\ (ctxDone /\ ~ENABLED SessOwnStep) =>
          /\ \A q \in Queues : stopChan[q] = "closed"
          /\ tStopChan = "closed"
          /\ ptyFile = "closed"

\* The context was cancelled twice while the session was running and the
\* owner never called Stop: the goroutine of Chirp.Start ran Chirp.Stop to
\* its end, and everything is closed.
C23_Witness ==
    /\ cancels >= 2
    /\ cStopPc = [c \in ChirpStopCallers |->
                     IF c = "watcher" THEN "returned" ELSE "idle"]
    /\ \A c \in StopCallers : stopPc[c] \in {"idle", "returned"}
    /\ stopPc["external"] = "returned"
    /\ tStopCloses = 1
    /\ ptyCloses = 1
    /\ \A q \in Queues : stopChan[q] = "closed"
    /\ playerClosed

\* ------------------------------ claims about the player's gate, continued

\* C24: a Play call that finds the gate closed returns nil at once: it is
\* not counted as failed, it neither marks a start nor renders nor reaches
\* the audio device, and lastSoundTime is what it was, so a suppressed call
\* does not extend the suppression window.
C24_SuppressedPlayLeavesNoTrace ==
    /\ [](\A q \in Queues : \A i \in 1..Len(calls[q]) :
             ~calls[q][i].passed =>
                 ~calls[q][i].marked /\ ~calls[q][i].device)
    /\ [][\A q \in Queues :
             (playPc[q] = "gate" /\ playPc'[q] # "gate" /\ isSoundPlaying) =>
                 /\ playPc'[q] = "idle"
                 /\ finished'[q] = finished[q] + 1
                 /\ failed'[q] = failed[q]
                 /\ lastSoundTime' = lastSoundTime
                 /\ devStart' = devStart]_vars

\* The second Play call of a trigger was suppressed; the third read the gate
\* less than the gap after the second did, and played.
C24_Witness ==
    \E q \in Queues :
        /\ Len(calls[q]) >= 3
        /\ calls[q][1].device
        /\ ~calls[q][2].passed
        /\ calls[q][3].device
        /\ calls[q][3].gate - calls[q][2].gate < minSoundGap

\* --------------------------------------- claims about the consumer loop

\* C25: when player.Play returns an error for the item the consumer took,
\* nothing panics, the loop is back at its select with the pending items as
\* they were (the failed item is gone, it is neither requeued nor retried),
\* and it stays able to take the next item.
C25_PlayErrorSwallowed ==
    [][\A q \in Queues :
          failed'[q] > failed[q] =>
              /\ ~panicked'
              /\ runPc[q] = "play" /\ runPc'[q] = "select"
              /\ itemChan'[q] = itemChan[q]
              /\ started'[q] = started[q]
              /\ (itemChan'[q] # <<>> => (ENABLED RunSelectItem)')]_vars

\* The first Play of a trigger returned an error and the consumer has
\* handed the next item to Play.
C25_Witness ==
    \E q \in Queues :
        /\ failed[q] = 1
        /\ finished[q] = 1
        /\ Len(started[q]) = 2
        /\ runPc[q] = "play"

\* ------------------------------------ claims about the engine, continued

\* C26: once handleOutput has gone through a chunk that contains "error:",
\* the queue of the trigger configured with that pattern has been offered
\* an item for the occurrence.
C26_MultiBytePatternMatched ==
    (outCount = Len(PatternChunk) /\ outPending = {}) => offered["error"] >= 1

\* The bytes passed to handleInput that trigger q matches, in buffer order.
RECURSIVE MatchedBy(_, _)
MatchedBy(q, n) ==
    IF n = 0 THEN <<>>
    ELSE IF MatchesInput(q, inLog[n].byte)
         THEN Append(MatchedBy(q, n - 1), inLog[n].byte)
         ELSE MatchedBy(q, n - 1)

\* C27: the Add calls handleInput has made on trigger q are exactly one per
\* byte of the data that q matches, the one for the byte in hand excepted
\* while it is still to come: none for a byte q does not match, none twice;
\* and they were made in buffer order, so the items the queue took are the
\* matching bytes in order (as long as it dropped none).
C27_InputOfferedOncePerMatch ==
    \A q \in Queues :
        /\ offered[q] = Len(MatchedBy(q, Len(inLog)))
                            - (IF q \in inPending THEN 1 ELSE 0)
        /\ inPending \subseteq {t \in Queues : MatchesInput(t, inByte)}
        /\ dropped[q] = 0 =>
              accepted[q] = SubSeq(MatchedBy(q, Len(inLog)), 1, offered[q])

\* handleInput was given "\n" and then "x": both triggers were offered the
\* first byte once, neither the second.
C27_Witness ==
    /\ Len(inLog) = 2
    /\ inLog[1].byte = "\n"
    /\ inLog[2].byte = "x"
    /\ inPending = {}
    /\ \A q \in Queues : offered[q] = 1

\* ------------------------------ claims about the echo tracker, continued

\* C28: after every TrackInput or IsRecentInput call, made at time now,
\* every entry the window retains is younger than the echo timeout (the
\* entry TrackInput has just inserted is of age 0); and an IsRecentInput
\* call that returns true does so for a byte recorded less than the timeout
\* before it.
C28_WindowPrunedOnAccess ==
    [][(tracks' # tracks \/ lastCheck' # lastCheck \/ chars' # chars) =>
          /\ \A i \in 1..Len(chars') :
                now' - chars'[i].timestamp < timeout'
          /\ (lastCheck' # lastCheck /\ lastCheck'.result) =>
                /\ lastCheck'.recorded >= 0
                /\ lastCheck'.at - lastCheck'.recorded < timeout']_vars

\* Two bytes were recorded, both expired, and an IsRecentInput call made
\* now found the window holding them, returned false and left it empty.
C28_Witness ==
    /\ tracks >= 2
    /\ \A c \in TrackedBytes : tracked[c] >= 0 /\ now - tracked[c] >= timeout
    /\ lastCheck.valid /\ lastCheck.at = now /\ ~lastCheck.result
    /\ chars = <<>>

\* ------------------------------------------- claims about the loops of main

\* C29 as stated: a chunk of more than 100 bytes starts no output chirp, and
\* a chunk of at most 100 bytes none of which is a recent input starts one.
C29_BurstSuppressedElseChirp ==
    lastOut.valid =>
        /\ lastOut.len > BurstLimit => ~lastOut.chirp
        /\ (lastOut.len <= BurstLimit /\ ~lastOut.echo) => lastOut.chirp

\* C29, amended: a chunk of more than 100 bytes starts no output chirp,
\* whether or not a byte of it is a recent input; a chunk of at most 100
\* bytes none of which is a recent input starts one exactly when no sound
\* has started within the minimum gap.
C29_BurstSuppressedElseChirpUnlessGated ==
    lastOut.valid =>
        /\ lastOut.len > BurstLimit => ~lastOut.chirp
        /\ (lastOut.len <= BurstLimit /\ ~lastOut.echo) =>
              (lastOut.chirp <=> ~lastOut.gated)

\* A chunk of 100 bytes started an output chirp; the next chunk, of 101
\* bytes, none a recent input and no sound within the gap, started none.
C29_Witness ==
    /\ outChirps >= 1
    /\ outChunks >= 2
    /\ lastOut.valid
    /\ lastOut.len = BurstLimit + 1
    /\ ~lastOut.echo
    /\ ~lastOut.gated
    /\ ~lastOut.chirp

\* C30: the resize loop calls pty.InheritSize exactly once when it starts,
\* before and whether or not a notification or the stop signal is there, and
\* afterwards once per notification it handles; once it has observed the
\* stop signal it calls it no more.
C30_OnePropagationPerNotification ==
    /\ [](/\ (~sizeSet => (inherits = 0 /\ resizes = 0))
          /\ (sizeSet => (inherits = resizes + 1))
          /\ ((resizePc = "running" /\ ~sizeSet /\ ~tPanicked)
                => ENABLED SizeInitial))
    /\ [][/\ inherits' \in {inherits, inherits + 1}
           /\ (resizePc = "stopped" => (inherits' = inherits))
           /\ ((resizes' # resizes) => (inherits' = inherits + 1))]_vars

C30_Witness ==
    /\ resizePc = "stopped"
    /\ resizes = MaxResizes
    /\ inherits = MaxResizes + 1

\* C31: a cache hit in PlayChirp hands the device the bytes GenerateChirp
\* would render for the requested Options: the entry found under the key of
\* the requested Options was rendered from those very Options (Options that
\* differ in frequency, duration or volume do not share a key).
C31_CacheHitPlaysRequested ==
    \A c \in CacheCallers :
        (cacheOut[c].valid /\ cacheOut[c].hit)
            => (/\ cacheOut[c].of = cacheOut[c].opts
                /\ getCacheKey(cacheOut[c].of) = getCacheKey(cacheOut[c].opts))

\* C32: when PlayChirp calls for the same cached Options overlap, each of
\* them hands the complete rendered buffer to the audio device.
C32_CachedBufferComplete ==
    \A c \in CacheCallers :
        (cacheOut[c].valid /\ cacheOut[c].hit
            /\ cacheOut[c].of = cacheOut[c].opts)
            => (/\ cacheOut[c].data = CompleteBuffer(cacheOut[c].opts)
                /\ cacheOut[c].device)

\* C33: with attack 0.1, decay 0.2, sustain 0.7 and release 0.3 the envelope
\* is 0 at progress 0, is the sustain level where attack and decay end, is
\* within one step's rise of 0 at the last sample, never jumps between two
\* samples by more than the steepest ramp (the attack) rises in one step, and
\* the release branch is taken only past the attack and decay phases.
C33_EnvelopeContinuous ==
    envI >= 0 =>
        /\ (envI = 0 => envValue = 0)
        /\ (10 * envI = (EnvAttack + EnvDecay) * envN
               => 10 * envValue = EnvSustain * EnvScale(envN))
        /\ (envI = envN - 1 => envValue <= 100 * EnvDecay * EnvRelease)
        /\ (envI >= 1 => /\ envValue - envPrev <= 100 * EnvDecay * EnvRelease
                         /\ envPrev - envValue <= 100 * EnvDecay * EnvRelease)
        /\ (envPhase = "release"
               => 10 * envI >= (EnvAttack + EnvDecay) * envN)

C33_Witness ==
    /\ envI >= 1
    /\ 10 * envI = (EnvAttack + EnvDecay) * envN
    /\ envPhase = "decay"

\* C39: for a volume in [0, 1] the envelope of every sample index lies in
\* [0, 1] and the sample magnitude is at most 32767, inside int16.
C39_SampleWithinInt16 ==
    envI >= 0 =>
        /\ envValue >= 0
        /\ envValue <= EnvScale(envN)
        /\ SampleMagnitude(envVolume, envValue) <= FullScale(envN)

C39_Witness ==
    /\ envI >= 0
    /\ envVolume = 100
    /\ SampleMagnitude(envVolume, envValue) = FullScale(envN)

\* C34: for every trigger whose consumer has not been stopped, the items
\* accepted by Add are the items handed to player.Play followed by the items
\* pending in the mailbox, in that order (none lost, none twice), and the
\* number pending is at most max_length.
C34_AcceptedPlayedOrPending ==
    \A q \in Queues :
        (stopChan[q] = "open" /\ runPc[q] # "exited") =>
            /\ accepted[q] = started[q] \o itemChan[q]
            /\ Len(accepted[q]) = Len(started[q]) + Len(itemChan[q])
            /\ Len(itemChan[q]) <= cfg[q].MaxLength

C34_Witness ==
    \E q \in Queues :
        /\ stopChan[q] = "open"
        /\ runPc[q] = "play"
        /\ Len(started[q]) >= 2
        /\ Len(itemChan[q]) = cfg[q].MaxLength
        /\ dropped[q] >= 1

\* C35: at every moment the bytes written to the PTY are a prefix of the
\* bytes read from stdin, and the bytes written to stdout a prefix of the
\* bytes read from the PTY, whichever triggers match, whichever items are
\* dropped and whatever the player returns.
C35_RelayTransparent ==
    /\ IsPrefix(ptyWritten, stdinRead)
    /\ IsPrefix(stdoutWritten, ptyRead)

C35_Witness ==
    /\ Len(ptyWritten) >= 2
    /\ ptyWritten = stdinRead
    /\ stdoutWritten # <<>>
    /\ Len(stdoutWritten) < Len(ptyRead)
    /\ copyOutPc \in {"stop", "exited"}
    /\ \E q \in Queues : dropped[q] >= 1

\* The bytes of the last n entries of the input handler's log.
LastHandled(n) ==
    [i \in 1..n |-> inLog[Len(inLog) - n + i].byte]

C40_KeyReadsWithinChunk ==
    keyOut.done =>
        /\ ~keyOut.panic
        /\ \A x \in keyOut.reads : x < keyN
        /\ keyOut.i < keyN

\* C37: once Terminal.Start has returned an error, no goroutine it started
\* (resize loop, copy loops, restore waiter) is alive, and the PTY is not
\* open.
C37_FailedStartLeavesNothing ==
    startPc = "failed" =>
        /\ resizePc # "running"
        /\ restorePc # "waiting"
        /\ copyInPc \in {"none", "exited"}
        /\ copyOutPc \in {"none", "exited"}
        /\ ptyFile # "open"

\* ------------------------------------- the gate with a zero-volume sample

\* Two triggers: "mute" plays a sample of volume 0.0, which
\* SampleConfig.Validate accepts (it rejects only Volume < 0.0 and
\* Volume > 1.0), and "remote" plays a short audible sample.
MuteConfig ==
    [q \in {"mute", "remote"} |->
        IF q = "mute"
        THEN QueueConfig("mute", {<<"\n">>},
                         SampleConfig("mute", 50, 392, 0), 1)
        ELSE QueueConfig("remote", {<<"$">>, <<"#">>, <<"%">>},
                         SampleTick, 1)]

InitMute == QueueInit({MuteConfig}) /\ PlayerInit /\ TrackerInit({DefaultEchoTimeout})
    /\ EngineInit /\ TermInit /\ LibInit /\ RelayInit /\ ChirpInit /\ MainInit
    /\ SizeInit /\ CacheInit /\ EnvInit /\ WireInit /\ KeyIdle

SpecMute == InitMute /\ [][NextGate]_vars

\* C38: a Play call that marked the start of a sound (advanced lastSoundTime)
\* handed a buffer to the audio device.
C38_MarkOnlyWithDevice ==
    \A q \in Queues : \A i \in 1..Len(calls[q]) :
        calls[q][i].marked => calls[q][i].device

====
